---- MODULE Spec2Model ----
(***************************************************************************)
(* Model of the basic-block trace pass (passes/BasicBlockTracer.cpp) as it *)
(* is driven by scripts/trace_wrapper.sh: the same bitcode is handed to    *)
(* two `opt -passes=bb-trace` processes, one with BBTRACE_STATIC_ONLY=1    *)
(* ("plain") and one without ("traced").  A module is a sequence of        *)
(* functions, a function a sequence of basic blocks, a block a sequence of *)
(* instructions.  The pass is a sequential, single-threaded handler, so    *)
(* one action (RunPass) applies the whole of BasicBlockTracePass::run to   *)
(* the module of one process.                                              *)
(***************************************************************************)
EXTENDS Integers, Sequences, FiniteSets, TLC

(***************************************************************************)
(* Bounds of the input modules.                                            *)
(***************************************************************************)
\* largest number of basic blocks of one function
MaxBlocks == 2
\* largest size of a module: its instructions plus its body-less or
\* runtime-named functions
MaxSize == 3
\* largest number of basic blocks of a function of the control-flow inputs
MaxCfgBlocks == 3
\* largest number of arguments of a call of the call inputs
MaxArgs == 2
\* largest number of pass invocations in one process
MaxRuns == 2

(***************************************************************************)
(* Program constants.                                                      *)
(***************************************************************************)
RuntimePrefix == "__bbtrace_"

\* std::numeric_limits<uint32_t>::max(), as the i32 constant it becomes in
\* the IR: all bits set, which the IR prints as -1
kInvalidLoopId == -1

(***************************************************************************)
(* IR values.  A name is a (prefix, base) pair so that                     *)
(* StringRef::starts_with("__bbtrace_") is a test of the prefix.           *)
(* An instruction carries its opcode, its callee (calls only), its         *)
(* successor blocks (branches only; positions in the function's block      *)
(* list), whether it defines an unnamed SSA value (and so takes a slot     *)
(* number when printed), its operands (inserted instructions and the       *)
(* arguments of calls; other operands are left out) and                    *)
(* whether it belongs to the input module.                                 *)
(***************************************************************************)
NoCallee == [kind |-> "none", prefix |-> "", base |-> ""]

FnCallee(prefix, base) == [kind |-> "function", prefix |-> prefix, base |-> base]

Inst(op, callee, succ, val) ==
    [op |-> op, callee |-> callee, succ |-> succ, val |-> val,
     args |-> <<>>, orig |-> TRUE]

Inserted(op, callee, val, args) ==
    [op |-> op, callee |-> callee, succ |-> <<>>, val |-> val,
     args |-> args, orig |-> FALSE]

\* operands: 32/64-bit constants, function pointers, block-address
\* constants and references to SSA values
ConstInt(ty, n) == [ty |-> ty, val |-> n, fn |-> 0, bb |-> 0]

FuncPtr(f) == [ty |-> "funcptr", val |-> 0, fn |-> f, bb |-> 0]

BlockAddress(f, b) == [ty |-> "blockaddress", val |-> 0, fn |-> f, bb |-> b]

ValueRef(name) == [ty |-> name, val |-> 0, fn |-> 0, bb |-> 0]

LoadI == Inst("load", NoCallee, <<>>, TRUE)

StoreI == Inst("store", NoCallee, <<>>, FALSE)

UserCallI == Inst("call", FnCallee("", "h"), <<>>, TRUE)

IntrinsicCallI ==
    Inst("call", [kind |-> "intrinsic", prefix |-> "llvm.", base |-> "dbg.value"],
         <<>>, FALSE)

AsmCallI == Inst("call", [kind |-> "asm", prefix |-> "", base |-> ""], <<>>, FALSE)

RuntimeCallI == Inst("call", FnCallee(RuntimePrefix, "helper"), <<>>, FALSE)

OtherI == Inst("add", NoCallee, <<>>, TRUE)

RetI == Inst("ret", NoCallee, <<>>, FALSE)

PhiI == Inst("phi", NoCallee, <<>>, TRUE)

BrI(t) == Inst("br", NoCallee, <<t>>, FALSE)

CondBrI(t, f) == Inst("br", NoCallee, <<t, f>>, FALSE)

(***************************************************************************)
(* Call arguments.  An argument has a type class (integer, pointer,        *)
(* floating point, anything else), the width of its type in bits (for the  *)
(* last class the store size in bits) and the bits of its run-time value,  *)
(* least significant first.                                                *)
(***************************************************************************)
Arg(class, width, bits) == [class |-> class, width |-> width, bits |-> bits]

AllOnes(w) == [k \in 1..w |-> TRUE]

LowBit(w) == [k \in 1..w |-> k = 1]

\* i1, i8, i64 and i128 values: -1 and 1
IntArgs ==
    {Arg("int", w, AllOnes(w)) : w \in {1, 8, 64, 128}}
    \cup {Arg("int", w, LowBit(w)) : w \in {8, 64, 128}}

\* DataLayout::getPointerSizeInBits of the target of the wrapper's clang
PointerSizeInBits == 64

PtrArgs == {Arg("ptr", PointerSizeInBits, AllOnes(PointerSizeInBits))}

\* a float and an x86_fp80
FpArgs == {Arg("fp", 32, AllOnes(32)), Arg("fp", 80, AllOnes(80))}

\* a struct of 16 bytes and an empty struct
OtherArgs == {Arg("other", 128, AllOnes(128)), Arg("other", 0, <<>>)}

CallArgs == IntArgs \cup PtrArgs \cup FpArgs \cup OtherArgs

\* a call of an ordinary function with the arguments args
CallI(args) == [UserCallI EXCEPT !.args = args]

\* terminators of the control-flow inputs: the two successors of a
\* conditional branch differ
CfgTerminators(nb) ==
    {RetI} \cup {BrI(t) : t \in 2..nb}
           \cup {CondBrI(tf[1], tf[2]) :
                     tf \in {x \in (2..nb) \X (2..nb) : x[1] # x[2]}}

BodyInsts ==
    {LoadI, StoreI, UserCallI, IntrinsicCallI, AsmCallI, RuntimeCallI, OtherI}

\* terminators of a block of a function with nb blocks; the entry block
\* (position 1) has no predecessors, so it is never a branch target
Terminators(nb) ==
    {RetI} \cup {BrI(t) : t \in 2..nb}
           \cup {CondBrI(t, f) : t \in 2..nb, f \in 2..nb}

(***************************************************************************)
(* Input modules.  A shape says how a module is cut into functions and     *)
(* blocks; the instructions are then drawn freely.                         *)
(***************************************************************************)
RECURSIVE SeqSum(_)
SeqSum(s) == IF s = <<>> THEN 0 ELSE Head(s) + SeqSum(Tail(s))

RECURSIVE LenSeqs(_, _)
\* the block lengths (each at least 1: the terminator) of `left` blocks with
\* exactly k instructions in all
LenSeqs(left, k) ==
    IF left = 0 THEN (IF k = 0 THEN {<<>>} ELSE {})
    ELSE UNION {{<<n>> \o rest : rest \in LenSeqs(left - 1, k - n)}
                : n \in 1..(k - (left - 1))}

\* function shapes of size n: a body-less or runtime-named function counts
\* 1, a user function counts its instructions
FuncShapes(n) ==
    (IF n = 1 THEN {[kind |-> "decl", lens |-> <<>>], [kind |-> "runtime", lens |-> <<>>]}
     ELSE {})
    \cup {[kind |-> "user", lens |-> ls]
          : ls \in UNION {LenSeqs(nb, n) : nb \in 1..MaxBlocks}}

RECURSIVE ShapesUpTo(_)
\* module shapes of size at most k
ShapesUpTo(k) ==
    {<<>>} \cup UNION {{<<fs>> \o rest : fs \in FuncShapes(n), rest \in ShapesUpTo(k - n)}
                       : n \in 1..k}

ModuleShapes == ShapesUpTo(MaxSize) \ {<<>>}

RECURSIVE FlatLens(_)
\* the block lengths of a shape, function after function
FlatLens(sh) == IF sh = <<>> THEN <<>> ELSE Head(sh).lens \o FlatLens(Tail(sh))

DeclF == [prefix |-> "", base |-> "ext", decl |-> TRUE, blocks |-> <<>>]

\* a defined function with a runtime name and one block
RuntimeF(base, blk) ==
    [prefix |-> RuntimePrefix, base |-> base, decl |-> FALSE, blocks |-> <<blk>>]

UserF(blocks) == [prefix |-> "", base |-> "f", decl |-> FALSE, blocks |-> blocks]

\* the module of shape sh whose body instructions are `body` and whose
\* terminators are `terms`, both in layout order
BuildModule(sh, body, terms) ==
    LET flat == FlatLens(sh)
        blk(g) == [x \in 1..(flat[g] - 1) |->
                      body[SeqSum([h \in 1..(g - 1) |-> flat[h] - 1]) + x]]
                  \o <<terms[g]>>
        fn(i) == LET base == SeqSum([j \in 1..(i - 1) |-> Len(sh[j].lens)])
                 IN  CASE sh[i].kind = "decl" -> DeclF
                       [] sh[i].kind = "runtime" -> RuntimeF("helper", <<RuntimeCallI, RetI>>)
                       [] OTHER -> UserF([b \in 1..Len(sh[i].lens) |-> blk(base + b)])
    IN  [i \in 1..Len(sh) |-> fn(i)]

\* every branch of a function targets a block of that function
WellFormed(M) ==
    \A i \in 1..Len(M) : \A b \in 1..Len(M[i].blocks) :
        \A k \in 1..Len(M[i].blocks[b]) :
            \A t \in 1..Len(M[i].blocks[b][k].succ) :
                M[i].blocks[b][k].succ[t] \in 2..Len(M[i].blocks)

(***************************************************************************)
(* The environment flag (isStaticOnlyMode).                                *)
(***************************************************************************)
EnvUnset == [set |-> FALSE, chars |-> <<>>]

EnvValue(chars) == [set |-> TRUE, chars |-> chars]

\* the value the lambda of isStaticOnlyMode computes from getenv's result;
\* Env[0] of an empty string is the terminating NUL
StaticOnlyFromEnv(e) ==
    IF e.set
    THEN LET c == IF e.chars = <<>> THEN "NUL" ELSE e.chars[1]
         IN  c \in {"1", "T", "t", "Y", "y"}
    ELSE FALSE

(***************************************************************************)
(* Helpers of the pass.                                                    *)
(***************************************************************************)
\* faulty variant of isInlineAsmCall: inline asm is not recognised
isInlineAsmCallNever(I) == FALSE

isInlineAsmCall(I) == I.callee.kind = "asm"

isIntrinsicInst(I) == I.op = "call" /\ I.callee.kind = "intrinsic"

\* getCalledFunction() is null for inline asm and indirect calls
isBbtraceRuntimeCall(I) ==
    /\ I.callee.kind \in {"function", "intrinsic"}
    /\ I.callee.prefix = RuntimePrefix

InsertBefore(blk, pos, items) ==
    SubSeq(blk, 1, pos - 1) \o items \o SubSeq(blk, pos, Len(blk))

\* BasicBlock::getFirstInsertionPt: the first instruction that is no PHI
FirstInsertionPt(blk) ==
    CHOOSE k \in 1..Len(blk) :
        /\ blk[k].op # "phi"
        /\ \A j \in 1..(k - 1) : blk[j].op = "phi"

\* number of unnamed SSA values a sequence of instructions defines
NumValues(blk) == Cardinality({k \in 1..Len(blk) : blk[k].val})

\* slot numbers of the function-local numbering (AsmWriter's SlotTracker):
\* unnamed blocks and unnamed values are numbered in layout order, as the
\* function stands when the instruction is printed
BlockSlot(blocks, b) ==
    (b - 1) + SeqSum([j \in 1..(b - 1) |-> NumValues(blocks[j])])

InstSlot(blocks, b, pos) ==
    BlockSlot(blocks, b) + 1 + NumValues(SubSeq(blocks[b], 1, pos - 1))

printInstruction(blocks, b, pos) ==
    LET I == blocks[b][pos]
    IN  [op |-> I.op, callee |-> I.callee,
         slot |-> IF I.val THEN InstSlot(blocks, b, pos) ELSE -1,
         labels |-> [t \in 1..Len(I.succ) |-> BlockSlot(blocks, I.succ[t])]]

makeBlockHeader(BbId) == <<"bb_", BbId, ":">>

\* faulty variant of BlockIdOf: ids counted from 1
BlockIdFromOne(b) == b

\* BlockIds of instrumentFunction: layout position, counted from 0
BlockIdOf(b) == b - 1

\* faulty variant of EntryAddress: a block address for the entry block too
BlockAddressAlways(f, b) == BlockAddress(f, b)

\* the address constant of a block: the function pointer for the entry
\* block, a blockaddress otherwise
EntryAddress(f, b) == IF b = 1 THEN FuncPtr(f) ELSE BlockAddress(f, b)

HookCall(name, args) == Inserted("call", FnCallee(RuntimePrefix, name), FALSE, args)

\* the inline asm of emitInstPcRecord: a .bbtrace_inst record and label 1:
InstPcMarker(FuncId, BbId, InstId) ==
    Inserted("call", [kind |-> "asm", prefix |-> "", base |-> ".bbtrace_inst"], FALSE,
             <<ConstInt("i32", FuncId), ConstInt("i32", BbId), ConstInt("i32", InstId),
               ConstInt("i32", 0)>>)

InstInfo(Kind, InstId, Targets, Buffer) ==
    [Kind |-> Kind, InstId |-> InstId, BranchTargets |-> Targets, Buffer |-> Buffer]

(***************************************************************************)
(* instrumentFunction: what is inserted in front of one instruction.       *)
(***************************************************************************)
\* faulty variant of MemSequence: the inst-PC marker is emitted in
\* instrumented mode only
MemSequenceGuarded(FuncId, BbId, InstId, isStore, EI) ==
    IF EI
    THEN <<InstPcMarker(FuncId, BbId, InstId),
           HookCall("on_mem",
                    <<ConstInt("i32", FuncId), ConstInt("i32", BbId),
                      ConstInt("i32", InstId), ValueRef("%ptr"), ValueRef("storesize"),
                      ConstInt("i1", IF isStore THEN 1 ELSE 0)>>)>>
    ELSE <<>>

\* faulty variant of MemSequence: the hook is built first, the marker
\* after it
MemSequenceHookFirst(FuncId, BbId, InstId, isStore, EI) ==
    (IF EI
     THEN <<HookCall("on_mem",
                     <<ConstInt("i32", FuncId), ConstInt("i32", BbId),
                       ConstInt("i32", InstId), ValueRef("%ptr"),
                       ValueRef("storesize"),
                       ConstInt("i1", IF isStore THEN 1 ELSE 0)>>)>>
     ELSE <<>>)
    \o <<InstPcMarker(FuncId, BbId, InstId)>>

\* load/store: the inst-PC marker in both modes, then the on_mem hook
MemSequence(FuncId, BbId, InstId, isStore, EI) ==
    <<InstPcMarker(FuncId, BbId, InstId)>>
    \o (IF EI
        THEN <<HookCall("on_mem",
                        <<ConstInt("i32", FuncId), ConstInt("i32", BbId),
                          ConstInt("i32", InstId), ValueRef("%ptr"),
                          ValueRef("storesize"),
                          ConstInt("i1", IF isStore THEN 1 ELSE 0)>>)>>
        ELSE <<>>)

\* faulty variant of SelectInst: the operands for true and false swapped
SelectInstSwapped(name, a, b) ==
    Inserted("select", [kind |-> "none", prefix |-> "", base |-> name], TRUE,
             <<ValueRef("%cond"), b, a>>)

\* IRBuilder::CreateSelect(Br->getCondition(), a, b), the value `name`
SelectInst(name, a, b) ==
    Inserted("select", [kind |-> "none", prefix |-> "", base |-> name], TRUE,
             <<ValueRef("%cond"), a, b>>)

\* branch: two selects on the condition and the on_branch hook
BranchSequence(I, f, FuncId, BbId, InstId, EI) ==
    IF ~EI THEN <<>>
    ELSE LET Succ0Addr == BlockAddress(f, I.succ[1])
         IN  IF Len(I.succ) = 2
             THEN <<SelectInst("%taken", ConstInt("i32", BlockIdOf(I.succ[1])),
                               ConstInt("i32", BlockIdOf(I.succ[2]))),
                    SelectInst("%taken_addr", Succ0Addr, BlockAddress(f, I.succ[2])),
                    HookCall("on_branch",
                             <<ConstInt("i32", FuncId), ConstInt("i32", BbId),
                               ConstInt("i32", InstId), ValueRef("%taken"),
                               ValueRef("%taken_addr")>>)>>
             ELSE <<HookCall("on_branch",
                             <<ConstInt("i32", FuncId), ConstInt("i32", BbId),
                               ConstInt("i32", InstId),
                               ConstInt("i32", BlockIdOf(I.succ[1])), Succ0Addr>>)>>

ReturnAddressCall ==
    Inserted("call", [kind |-> "intrinsic", prefix |-> "llvm.", base |-> "returnaddress"],
             TRUE, <<ConstInt("i32", 0)>>)

\* enum class CallArgKind : uint32_t
CallArgKind(name) ==
    CASE name = "Unknown" -> 0
      [] name = "Integer" -> 1
      [] name = "Pointer" -> 2
      [] name = "Floating" -> 3

Cast(op, to) == [op |-> op, to |-> to]

\* faulty variant of Resize: narrow values are sign-extended
ResizeSigned(BitWidth) ==
    IF BitWidth < 64 THEN <<Cast("sext", 64)>>
    ELSE IF BitWidth > 64 THEN <<Cast("trunc", 64)>>
    ELSE <<>>

\* CreateZExt to i64 below 64 bits, CreateTrunc to i64 above, nothing at 64
\* (a value of 64 bits is an i64 already)
Resize(BitWidth) ==
    IF BitWidth < 64 THEN <<Cast("zext", 64)>>
    ELSE IF BitWidth > 64 THEN <<Cast("trunc", 64)>>
    ELSE <<>>

Max(a, b) == IF a >= b THEN a ELSE b

\* the i64 operand that is Arg passed through the casts
CastValue(A, casts) ==
    [ty |-> "i64", val |-> 0, fn |-> 0, bb |-> 0, casts |-> casts, arg |-> A]

\* materializeCallArg: Kind, BitWidth, the cast instructions it builds and
\* the value it returns
materializeCallArg(A) ==
    CASE A.class = "ptr" ->
           [Kind |-> CallArgKind("Pointer"), BitWidth |-> PointerSizeInBits,
            Value |-> CastValue(A, <<Cast("ptrtoint", Max(PointerSizeInBits, 1))>>
                                   \o Resize(PointerSizeInBits))]
      [] A.class = "int" ->
           [Kind |-> CallArgKind("Integer"), BitWidth |-> A.width,
            Value |-> CastValue(A, Resize(A.width))]
      [] A.class = "fp" ->
           [Kind |-> CallArgKind("Floating"), BitWidth |-> A.width,
            Value |-> CastValue(A, <<Cast("bitcast", Max(A.width, 1))>> \o Resize(A.width))]
      [] OTHER ->
           [Kind |-> CallArgKind("Unknown"),
            BitWidth |-> IF A.width = 0 THEN 1 ELSE A.width,
            Value |-> ConstInt("i64", 0)]

\* the instructions the IRBuilder creates for the casts of a value
CastInsts(V) ==
    IF V.ty = "i64" /\ "casts" \in DOMAIN V
    THEN [c \in 1..Len(V.casts) |->
             Inserted(V.casts[c].op, NoCallee, TRUE,
                      <<CastValue(V.arg, SubSeq(V.casts, 1, c - 1))>>)]
    ELSE <<>>

\* faulty variant of ArgTriple: the bit width is not pushed
ArgPair(m) == <<ConstInt("i32", m.Kind), m.Value>>

\* the three operands pushed for one materialized argument
ArgTriple(m) == <<ConstInt("i32", m.Kind), ConstInt("i32", m.BitWidth), m.Value>>

RECURSIVE MarshalArgs(_, _)
\* `for (Value *Arg : Call->args())`: acc holds the instructions built so
\* far (insts) and CallOperands (ops)
MarshalArgs(args, acc) ==
    IF args = <<>> THEN acc
    ELSE MarshalArgs(Tail(args),
                     [insts |-> acc.insts \o CastInsts(materializeCallArg(Head(args)).Value),
                      ops |-> acc.ops \o ArgTriple(materializeCallArg(Head(args)))])

\* the on_call hook with the operands ops, behind the instructions insts
CallHookAfter(acc) == acc.insts \o <<HookCall("on_call", acc.ops)>>

\* call: llvm.returnaddress(0), the casts of the arguments and the variadic
\* on_call hook; no marker
CallSequence(I, FuncId, BbId, InstId, EI) ==
    IF ~EI THEN <<>>
    ELSE CallHookAfter(
             MarshalArgs(I.args,
                         [insts |-> <<ReturnAddressCall>>,
                          ops |-> <<ConstInt("i32", FuncId), ConstInt("i32", BbId),
                                    ConstInt("i32", InstId), ValueRef("%retaddr"),
                                    ValueRef("%callee"), ConstInt("i32", Len(I.args))>>]))

\* the call instructions that get a call inst_id
isInstrumentedCall(I) ==
    /\ I.op = "call"
    /\ ~isIntrinsicInst(I)
    /\ ~isInlineAsmCall(I)
    /\ ~isBbtraceRuntimeCall(I)

\* faulty variant of BranchTargetsOf: the false successor is pushed first
BranchTargetsReversed(I) ==
    [t \in 1..Len(I.succ) |-> BlockIdOf(I.succ[Len(I.succ) + 1 - t])]

\* InstInfo.BranchTargets: BlockIds.lookup of successor 0, then successor 1
BranchTargetsOf(I) == [t \in 1..Len(I.succ) |-> BlockIdOf(I.succ[t])]

\* the instructions instrumentFunction puts in front of I; ids holds the
\* three counters NextMemInstId, NextBranchInstId and NextCallInstId
InsertedFor(I, f, FuncId, BbId, ids, EI) ==
    CASE I.op = "load" -> MemSequence(FuncId, BbId, ids.mem, FALSE, EI)
      [] I.op = "store" -> MemSequence(FuncId, BbId, ids.mem, TRUE, EI)
      [] I.op = "br" -> BranchSequence(I, f, FuncId, BbId, ids.br, EI)
      [] isInstrumentedCall(I) -> CallSequence(I, FuncId, BbId, ids.call, EI)
      [] OTHER -> <<>>

\* the InstructionStaticInfo of I, whose printed text is Buffer
StaticInfoOf(I, ids, Buffer) ==
    CASE I.op = "load" -> InstInfo("load", ids.mem, <<>>, Buffer)
      [] I.op = "store" -> InstInfo("store", ids.mem, <<>>, Buffer)
      [] I.op = "br" -> InstInfo("branch", ids.br, BranchTargetsOf(I), Buffer)
      [] isInstrumentedCall(I) -> InstInfo("call", ids.call, <<>>, Buffer)
      [] OTHER -> InstInfo("generic", 0, <<>>, Buffer)

\* faulty variant of AdvanceCounters: one counter for all three classes
AdvanceOneCounter(ids, I) ==
    LET n == IF I.op \in {"load", "store", "br"} \/ (I.op = "call" /\ I.callee.kind = "function"
                                                     /\ I.callee.prefix # RuntimePrefix)
             THEN 1 ELSE 0
    IN  [mem |-> ids.mem + n, br |-> ids.br + n, call |-> ids.call + n]

\* NextMemInstId++, NextBranchInstId++, NextCallInstId++: visiting I
\* advances the counter of I's class and no other
AdvanceCounters(ids, I) ==
    [mem |-> IF I.op \in {"load", "store"} THEN ids.mem + 1 ELSE ids.mem,
     br |-> IF I.op = "br" THEN ids.br + 1 ELSE ids.br,
     call |-> IF isInstrumentedCall(I) THEN ids.call + 1 ELSE ids.call]

(***************************************************************************)
(* The walk over a function.  Its state st holds the blocks of the         *)
(* function, the three counters (ids), the iterator of the loop over the   *)
(* current block (left: the number of instructions from the current one to *)
(* the end of the block, which insertions in front of the current          *)
(* instruction leave alone), the Instructions of the current block (insts) *)
(* and the StaticInfos and PcInfos vectors.                                *)
(***************************************************************************)
\* the body of `for (Instruction &I : BB)` for the instruction at pos, which
\* is not skipped: it is printed, then the instructions for it are put in
\* front of it, and its InstructionStaticInfo is pushed
VisitInstruction(st, f, FuncId, b, pos, EI) ==
    [st EXCEPT
        !.blocks[b] = InsertBefore(@, pos,
                                   InsertedFor(st.blocks[b][pos], f, FuncId, BlockIdOf(b),
                                               st.ids, EI)),
        !.ids = AdvanceCounters(@, st.blocks[b][pos]),
        !.left = @ - 1,
        !.insts = Append(@, StaticInfoOf(st.blocks[b][pos], st.ids,
                                         printInstruction(st.blocks, b, pos)))]

\* faulty variant of isSkipped: the loop over a block has no `continue`
isSkippedNever(I) == FALSE

\* instructions the loop over a block skips before recording anything
isSkipped(I) == I.op = "call" /\ isBbtraceRuntimeCall(I)

RECURSIVE InstLoop(_, _, _, _, _)
\* `for (Instruction &I : BB)` from the iterator of st on
InstLoop(st, f, FuncId, b, EI) ==
    IF st.left = 0 THEN st
    ELSE IF isSkipped(st.blocks[b][Len(st.blocks[b]) - st.left + 1])
         THEN InstLoop([st EXCEPT !.left = @ - 1], f, FuncId, b, EI)
         ELSE InstLoop(VisitInstruction(st, f, FuncId, b,
                                        Len(st.blocks[b]) - st.left + 1, EI),
                       f, FuncId, b, EI)

(***************************************************************************)
(* LoopAnalysis (llvm::LoopInfo) of a function: natural loops of the       *)
(* reachable blocks, one per header, found from the back edges of the      *)
(* dominator tree.  A loop is named by the position of its header.         *)
(***************************************************************************)
Successors(blocks, b) ==
    LET T == blocks[b][Len(blocks[b])]
    IN  {T.succ[t] : t \in 1..Len(T.succ)}

RECURSIVE ReachFrom(_, _, _)
\* blocks reachable from `set` along paths that do not enter `avoid`
ReachFrom(blocks, set, avoid) ==
    LET next == set \cup ((UNION {Successors(blocks, b) : b \in set}) \ avoid)
    IN  IF next = set THEN set ELSE ReachFrom(blocks, next, avoid)

Reachable(blocks) == ReachFrom(blocks, {1}, {})

\* DominatorTree::dominates for reachable blocks h and t
Dominates(blocks, h, t) ==
    \/ h = t
    \/ h = 1
    \/ t \notin ReachFrom(blocks, {1}, {h})

\* the sources of the back edges into h
Latches(blocks, reach, h) ==
    {t \in reach : h \in Successors(blocks, t) /\ Dominates(blocks, h, t)}

RECURSIVE ReachBack(_, _, _, _)
\* reachable blocks from which `set` is reached without passing through h
\* (the backward walk of discoverAndMapSubloop stops at the header)
ReachBack(blocks, reach, set, h) ==
    LET next == set \cup {p \in reach \ {h} :
                             Successors(blocks, p) \cap (set \ {h}) # {}}
    IN  IF next = set THEN set ELSE ReachBack(blocks, reach, next, h)

\* the loops of a function, as a set of <<header, blocks of the loop>>
Loops(blocks) ==
    LET reach == Reachable(blocks)
    IN  {<<h, {h} \cup ReachBack(blocks, reach, Latches(blocks, reach, h), h)>> :
            h \in {g \in reach : Latches(blocks, reach, g) # {}}}

LoopHeaders(loops) == {L[1] : L \in loops}

LoopBlocks(loops, h) == (CHOOSE L \in loops : L[1] = h)[2]

\* headers of the loops that contain block b
LoopsAround(loops, b) == {L[1] : L \in {K \in loops : b \in K[2]}}

HasLoopFor(loops, b) == LoopsAround(loops, b) # {}

\* the smallest of the loops whose headers are in hs
Innermost(loops, hs) ==
    CHOOSE h \in hs :
        \A g \in hs : Cardinality(LoopBlocks(loops, h)) <= Cardinality(LoopBlocks(loops, g))

\* faulty variant of getLoopFor: the outermost loop that contains b
getOutermostLoopFor(loops, b) ==
    CHOOSE h \in LoopsAround(loops, b) :
        \A g \in LoopsAround(loops, b) :
            Cardinality(LoopBlocks(loops, g)) <= Cardinality(LoopBlocks(loops, h))

\* LoopInfo::getLoopFor: the innermost loop that contains b
getLoopFor(loops, b) == Innermost(loops, LoopsAround(loops, b))

\* loops strictly around the loop of header h
OuterLoops(loops, h) == LoopsAround(loops, h) \ {h}

IsTopLevel(loops, h) == OuterLoops(loops, h) = {}

ParentLoop(loops, h) == Innermost(loops, OuterLoops(loops, h))

RECURSIVE PostOrderVisit(_, _, _, _)
\* depth-first walk of the CFG (po_iterator): a block is marked when it is
\* first reached, its successors are tried in operand order, and it is
\* emitted after them.  t is the next successor of b to try.
PostOrderVisit(blocks, b, t, st) ==
    LET T == blocks[b][Len(blocks[b])]
    IN  IF t > Len(T.succ)
        THEN [seen |-> st.seen, order |-> Append(st.order, b)]
        ELSE IF T.succ[t] \in st.seen
             THEN PostOrderVisit(blocks, b, t + 1, st)
             ELSE PostOrderVisit(blocks, b, t + 1,
                      PostOrderVisit(blocks, T.succ[t], 1,
                          [seen |-> st.seen \cup {T.succ[t]}, order |-> st.order]))

PostOrder(blocks) == PostOrderVisit(blocks, 1, 1, [seen |-> {1}, order |-> <<>>]).order

Reverse(s) == [i \in 1..Len(s) |-> s[Len(s) + 1 - i]]

SelectSeq2(s, S) == SelectSeq(s, LAMBDA x : x \in S)

\* LoopInfo.begin()..end(): the outermost loops, in the post-order po of
\* their headers (PopulateLoopsDFS adds a loop when its header is left)
TopLevelLoops(loops, po) ==
    SelectSeq2(po, {h \in LoopHeaders(loops) : IsTopLevel(loops, h)})

\* Loop::begin()..end(): the direct sub-loops, reversed into program order
SubLoops(loops, po, h) ==
    Reverse(SelectSeq2(po, {g \in LoopHeaders(loops) :
                               ~IsTopLevel(loops, g) /\ ParentLoop(loops, g) = h}))

\* faulty variant of AssignLoopIds: the loops are numbered from the inside
\* out, a loop after the loops it contains
AssignLoopIdsInnerFirst(loops, po, queue, next, ids) ==
    {<<L[1], Cardinality({K \in loops :
                            \/ Cardinality(K[2]) < Cardinality(L[2])
                            \/ Cardinality(K[2]) = Cardinality(L[2]) /\ K[1] < L[1]})>> :
        L \in loops}

RECURSIVE AssignLoopIds(_, _, _, _, _)
\* the LoopQueue of instrumentFunction: pop the back, push its sub-loops,
\* give the popped loop the next id.  ids is a set of <<header, id>> pairs.
AssignLoopIds(loops, po, queue, next, ids) ==
    IF queue = <<>> THEN ids
    ELSE LET L == queue[Len(queue)]
         IN  AssignLoopIds(loops, po,
                           SubSeq(queue, 1, Len(queue) - 1) \o SubLoops(loops, po, L),
                           next + 1, ids \cup {<<L, next>>})

LoopIds(blocks, loops) ==
    IF loops = {} THEN {}
    ELSE LET po == PostOrder(blocks)
         IN  AssignLoopIds(loops, po, TopLevelLoops(loops, po), 0, {})

(***************************************************************************)
(* instrumentFunction.                                                     *)
(***************************************************************************)
\* the innermost loop of every block that is in a loop, as a set of
\* <<block, header>> pairs
InnermostLoops(blocks, loops) ==
    {<<b, getLoopFor(loops, b)>> : b \in {c \in 1..Len(blocks) : HasLoopFor(loops, c)}}

PairValue(pairs, key) == (CHOOSE p \in pairs : p[1] = key)[2]

HasPair(pairs, key) == \E p \in pairs : p[1] = key

\* faulty variant of EntryHooks: on_loop in every block of a loop, with the
\* id of the innermost loop around it
EntryHooksInLoop(loops, ids, f, FuncId, b) ==
    LET hint == IF HasPair(loops, b) THEN PairValue(ids, PairValue(loops, b))
                ELSE kInvalidLoopId
        bbhook == HookCall("on_basic_block",
                           <<ConstInt("i32", FuncId), ConstInt("i32", BlockIdOf(b)),
                             ConstInt("i32", hint), EntryAddress(f, b)>>)
    IN  IF HasPair(loops, b)
        THEN <<HookCall("on_loop", <<ConstInt("i32", FuncId), ConstInt("i32", hint)>>),
               bbhook>>
        ELSE <<bbhook>>

\* faulty variant of EntryHooks: on_loop lands behind on_basic_block
EntryHooksBbFirst(loops, ids, f, FuncId, b) ==
    LET hint == IF HasPair(loops, b) THEN PairValue(ids, PairValue(loops, b))
                ELSE kInvalidLoopId
        bbhook == HookCall("on_basic_block",
                           <<ConstInt("i32", FuncId), ConstInt("i32", BlockIdOf(b)),
                             ConstInt("i32", hint), EntryAddress(f, b)>>)
    IN  IF HasPair(loops, b) /\ PairValue(loops, b) = b
        THEN <<bbhook,
               HookCall("on_loop", <<ConstInt("i32", FuncId),
                                     ConstInt("i32", PairValue(ids, b))>>)>>
        ELSE <<bbhook>>

\* the calls put at the first insertion point of a block: on_basic_block,
\* and for a loop header on_loop, which is built at the (new) first
\* insertion point and so lands in front of on_basic_block.  loops holds
\* getLoopFor of the blocks, ids the LoopIds map.
EntryHooks(loops, ids, f, FuncId, b) ==
    LET hint == IF HasPair(loops, b) THEN PairValue(ids, PairValue(loops, b))
                ELSE kInvalidLoopId
        bbhook == HookCall("on_basic_block",
                           <<ConstInt("i32", FuncId), ConstInt("i32", BlockIdOf(b)),
                             ConstInt("i32", hint), EntryAddress(f, b)>>)
    IN  IF HasPair(loops, b) /\ PairValue(loops, b) = b
        THEN <<HookCall("on_loop", <<ConstInt("i32", FuncId),
                                     ConstInt("i32", PairValue(ids, b))>>),
               bbhook>>
        ELSE <<bbhook>>

BlockInfo(F, FuncId, b, insts) ==
    [FuncId |-> FuncId, FuncName |-> <<F.prefix, F.base>>,
     BbId |-> BlockIdOf(b), BbName |-> <<"bb_", BlockIdOf(b)>>,
     Header |-> makeBlockHeader(BlockIdOf(b)), Instructions |-> insts]

PcInfo(FuncId, f, b) ==
    [FuncId |-> FuncId, BbId |-> BlockIdOf(b), Address |-> EntryAddress(f, b)]

\* faulty variant of BeginBlock: the entry hooks are inserted in
\* static-only mode too
BeginBlockAlways(st, f, FuncId, b, EI, loops, lids) ==
    [st EXCEPT !.blocks[b] = InsertBefore(@, FirstInsertionPt(@),
                                          EntryHooks(loops, lids, f, FuncId, b))]

\* faulty variant of BeginBlock: the entry hooks are put in front of the
\* terminator
BeginBlockAtEnd(st, f, FuncId, b, EI, loops, lids) ==
    IF EI
    THEN [st EXCEPT !.blocks[b] = InsertBefore(@, Len(@),
                                               EntryHooks(loops, lids, f, FuncId, b))]
    ELSE st

\* the head of the loop over the blocks: the entry hooks are put at the
\* first insertion point
BeginBlock(st, f, FuncId, b, EI, loops, lids) ==
    IF EI
    THEN [st EXCEPT !.blocks[b] = InsertBefore(@, FirstInsertionPt(@),
                                               EntryHooks(loops, lids, f, FuncId, b))]
    ELSE st

\* BB.begin(): the iterator on the first instruction of block b
BeginInsts(st, b) == [st EXCEPT !.left = Len(st.blocks[b]), !.insts = <<>>]

\* PcInfos.push_back and StaticInfos.push_back(std::move(Info)) of block b
EndBlock(st, F, f, FuncId, b) ==
    [st EXCEPT !.Static = Append(@, BlockInfo(F, FuncId, b, st.insts)),
               !.Pc = Append(@, PcInfo(FuncId, f, b))]

RECURSIVE BlockLoop(_, _, _, _, _, _, _, _)
\* the second `for (BasicBlock &BB : F)` from block b on
BlockLoop(st, F, f, FuncId, b, EI, loops, lids) ==
    IF b > Len(F.blocks) THEN st
    ELSE BlockLoop(EndBlock(InstLoop(BeginInsts(BeginBlock(st, f, FuncId, b, EI,
                                                           loops, lids), b),
                                     f, FuncId, b, EI),
                            F, f, FuncId, b),
                   F, f, FuncId, b + 1, EI, loops, lids)

\* Module::getOrInsertFunction: a declaration is appended to the function
\* list unless a function of that name exists
getOrInsertFunction(funcs, prefix, base) ==
    IF \E i \in 1..Len(funcs) : funcs[i].prefix = prefix /\ funcs[i].base = base
    THEN funcs
    ELSE Append(funcs, [prefix |-> prefix, base |-> base, decl |-> TRUE, blocks |-> <<>>])

RECURSIVE declareAll(_, _)
declareAll(funcs, names) ==
    IF names = <<>> THEN funcs
    ELSE declareAll(getOrInsertFunction(funcs, Head(names)[1], Head(names)[2]), Tail(names))

HookDeclarations ==
    <<<<RuntimePrefix, "on_basic_block">>, <<RuntimePrefix, "on_loop">>,
      <<RuntimePrefix, "on_mem">>, <<RuntimePrefix, "on_branch">>,
      <<RuntimePrefix, "on_call">>, <<"llvm.", "returnaddress">>>>

\* instrumentFunction once the LoopInfo LI of the function is known
WalkBlocks(ms, f, EI, LI) ==
    BlockLoop([blocks |-> ms.module.functions[f].blocks,
               ids |-> [mem |-> 0, br |-> 0, call |-> 0],
               left |-> 0, insts |-> <<>>,
               Static |-> ms.StaticInfos, Pc |-> ms.PcInfos],
              ms.module.functions[f], f, ms.FuncId, 1, EI,
              InnermostLoops(ms.module.functions[f].blocks, LI),
              LoopIds(ms.module.functions[f].blocks, LI))

\* the module state after the walk st over function f
AfterFunction(ms, f, EI, st) ==
    [ms EXCEPT !.module.functions =
                   [(IF EI THEN declareAll(@, HookDeclarations) ELSE @)
                       EXCEPT ![f].blocks = st.blocks],
               !.StaticInfos = st.Static,
               !.PcInfos = st.Pc]

\* instrumentFunction on function f.  ms holds the module, the next FuncId
\* and the StaticInfos and PcInfos vectors of instrumentModule.
instrumentFunction(ms, f, EI) ==
    AfterFunction(ms, f, EI,
                  WalkBlocks(ms, f, EI,
                             IF EI THEN Loops(ms.module.functions[f].blocks) ELSE {}))

(***************************************************************************)
(* instrumentModule and the artifacts it emits.  A module is its function  *)
(* list, its llvm.global_ctors / llvm.global_dtors lists and the           *)
(* initializer of its __bbtrace_pcmap global (empty: no such global).      *)
(***************************************************************************)
NewModule(funcs) == [functions |-> funcs, ctors |-> <<>>, dtors |-> <<>>, pcmap |-> <<>>]

\* ensureCtorDtor: the two hook declarations, the private constructor and
\* destructor, and their registration at priority 0
ensureCtorDtor(M) ==
    LET funcs1 == declareAll(M.functions, <<<<RuntimePrefix, "register_module">>,
                                            <<RuntimePrefix, "finalize">>>>)
        funcs2 == funcs1 \o <<RuntimeF("ctor", <<HookCall("register_module",
                                                          <<ValueRef("@module_name")>>),
                                                 Inserted("ret", NoCallee, FALSE, <<>>)>>),
                              RuntimeF("dtor", <<HookCall("finalize", <<>>),
                                                 Inserted("ret", NoCallee, FALSE, <<>>)>>)>>
    IN  [M EXCEPT !.functions = funcs2,
                  !.ctors = Append(@, [fn |-> Len(funcs2) - 1, priority |-> 0]),
                  !.dtors = Append(@, [fn |-> Len(funcs2), priority |-> 0])]

isDeclaration(F) == F.decl

\* faulty variant of hasRuntimeName: the name is compared with the prefix
\* instead of being tested for it
hasRuntimeNameExact(F) == F.prefix = RuntimePrefix /\ F.base = ""

hasRuntimeName(F) == F.prefix = RuntimePrefix

RECURSIVE FunctionLoop(_, _, _)
\* `for (Function &F : M)` from function f on; functions the pass appends
\* while it walks the list are walked too
FunctionLoop(ms, f, EI) ==
    IF f > Len(ms.module.functions) THEN ms
    ELSE IF isDeclaration(ms.module.functions[f]) \/ hasRuntimeName(ms.module.functions[f])
         THEN FunctionLoop(ms, f + 1, EI)
         ELSE FunctionLoop([instrumentFunction(ms, f, EI) EXCEPT !.FuncId = @ + 1],
                           f + 1, EI)

instKindToString(Kind) == Kind

\* one element of a record's "insts": inst_id is present iff the kind is
\* not generic, targets iff BranchTargets is not empty (an absent field is
\* the empty sequence)
InstObj(Info) ==
    [text |-> Info.Buffer, kind |-> instKindToString(Info.Kind),
     inst_id |-> IF Info.Kind # "generic" THEN <<Info.InstId>> ELSE <<>>,
     targets |-> Info.BranchTargets]

BlockObj(Entry) ==
    [func_id |-> Entry.FuncId, func_name |-> Entry.FuncName, bb_id |-> Entry.BbId,
     bb_name |-> Entry.BbName, header |-> Entry.Header,
     insts |-> [k \in 1..Len(Entry.Instructions) |-> InstObj(Entry.Instructions[k])]]

\* a descriptor file: whether the pass has written it, its lines, and
\* whether the last attempt of the pass to open it failed
NoFile == [written |-> FALSE, lines |-> <<>>, failed |-> FALSE]

\* faulty variant of dumpBasicBlockInfo: the stream is written without
\* the is_open test
dumpBasicBlockInfoUnchecked(file, Infos, canOpen) ==
    IF Infos = <<>> THEN file
    ELSE [written |-> TRUE, lines |-> [k \in 1..Len(Infos) |-> BlockObj(Infos[k])],
          failed |-> ~canOpen]

\* dumpBasicBlockInfo on the descriptor file `file`: it is left as it is
\* for an empty Infos or when it cannot be opened (the directory could not
\* be created, or the file not opened for writing); otherwise it is
\* truncated and gets one line per entry
dumpBasicBlockInfo(file, Infos, canOpen) ==
    IF Infos = <<>> THEN file
    ELSE IF ~canOpen THEN [file EXCEPT !.failed = TRUE]
    ELSE [written |-> TRUE, lines |-> [k \in 1..Len(Infos) |-> BlockObj(Infos[k])],
          failed |-> FALSE]

PcMapEntry(Entry) ==
    [func_id |-> Entry.FuncId, bb_id |-> Entry.BbId, address |-> Entry.Address]

\* faulty variant of emitPcMap: entry blocks, whose block address cannot be
\* taken, are left out of the array
emitPcMapNoEntry(M, Infos) ==
    [M EXCEPT !.pcmap =
        LET kept == SelectSeq(Infos, LAMBDA E : E.Address.ty = "blockaddress")
        IN  [k \in 1..Len(kept) |-> PcMapEntry(kept[k])]]

\* emitPcMap: no global for an empty Infos, else the .bbtrace_map array
emitPcMap(M, Infos) ==
    IF Infos = <<>> THEN M
    ELSE [M EXCEPT !.pcmap = [k \in 1..Len(Infos) |-> PcMapEntry(Infos[k])]]

\* faulty variant of walkFunctions: the constructor and destructor are
\* created only for a module that has a function to instrument
walkFunctionsCtorIfEligible(M, StaticOnly) ==
    FunctionLoop([module |-> IF StaticOnly
                                \/ \A i \in 1..Len(M.functions) :
                                       isDeclaration(M.functions[i])
                                       \/ hasRuntimeName(M.functions[i])
                             THEN M ELSE ensureCtorDtor(M),
                  FuncId |-> 0, StaticInfos |-> <<>>, PcInfos |-> <<>>],
                 1, ~StaticOnly)

\* instrumentModule up to the end of its loop over the functions: the
\* module, the next FuncId and the two vectors
walkFunctions(M, StaticOnly) ==
    FunctionLoop([module |-> IF StaticOnly THEN M ELSE ensureCtorDtor(M),
                  FuncId |-> 0, StaticInfos |-> <<>>, PcInfos |-> <<>>],
                 1, ~StaticOnly)

(***************************************************************************)
(* The runtime's side of the on_call hook (runtime/trace_logger.cpp).      *)
(***************************************************************************)
RECURSIVE bbtrace_on_call(_, _)
\* the types __bbtrace_on_call reads with va_arg from its variadic part,
\* from argument idx on: uint32_t kind, uint32_t bits, uint64_t value
bbtrace_on_call(idx, num_args) ==
    IF idx >= num_args THEN <<>>
    ELSE <<"i32", "i32", "i64">> \o bbtrace_on_call(idx + 1, num_args)

(***************************************************************************)
(* The state: the bitcode handed to both opt processes, and per process    *)
(* its environment, the memo of isStaticOnlyMode, its module, the vectors  *)
(* of the finished pass, the descriptor file it exported, and the value    *)
(* BBTRACE_STATIC_ONLY had at each invocation of the pass so far.          *)
(***************************************************************************)
Procs == {"plain", "traced"}

VARIABLES input, env, Enabled, phase, module, StaticInfos, PcInfos, bbinfo,
          invocations

passVars == <<input, env, Enabled, phase, module, StaticInfos, PcInfos, bbinfo,
              invocations>>

(***************************************************************************)
(* The other programs of the repository have their own state.              *)
(*                                                                         *)
(* The trace runtime (runtime/trace_logger.cpp) in an instrumented         *)
(* process: the static of tracing_disabled, the TraceLogger's fd_ and      *)
(* sequence_, the lines of its JSONL file, and per thread the hook it is   *)
(* in and the sequence number that hook holds.                             *)
(***************************************************************************)
VARIABLES disabled, fd_, sequence_, jsonl, hook

loggerVars == <<disabled, fd_, sequence_, jsonl, hook>>

\* one call of __bbtrace_on_call: its position, its arguments and locals
VARIABLES oncall

\* a FreeList<T> (gem5 base/free_list.hh): whether the build defines
\* NDEBUG, the members _ranges and _size, and the last call with what it
\* found and returned
VARIABLES NDEBUG, _ranges, _size, lastCall

freeListVars == <<NDEBUG, _ranges, _size, lastCall>>

\* a MicroOpVerboseTracer (gem5 cpu/uop_tracer.cc): bufferLimit, the
\* output stream, the buffer, the holder of bufferMutex, per thread the
\* call it is in, and the entries in the order their appends took the lock
VARIABLES bufferLimit, stream, buffer, bufferMutex, caller, appended

tracerVars == <<bufferLimit, stream, buffer, bufferMutex, caller, appended>>

vars == <<passVars, loggerVars, oncall, freeListVars, tracerVars>>

\* largest number of threads of a process
MaxThreads == 2

Threads == 1..MaxThreads

\* the runtime before any hook has run: tracing disabled or not, the log
\* file descriptor fd (-1: none)
LoggerStarts(off, fd) ==
    /\ disabled = off
    /\ fd_ = fd
    /\ sequence_ = 0
    /\ jsonl = <<>>
    /\ hook = [t \in Threads |-> [pc |-> "idle", seq |-> 0]]

\* no call of __bbtrace_on_call
NoCall == [pc |-> "none"]

\* FreeList() = default, in a build with or without NDEBUG
FreeListStarts(ndebug) ==
    /\ NDEBUG = ndebug
    /\ _ranges = <<>>
    /\ _size = 0
    /\ lastCall = [op |-> "none", result |-> "ok", n |-> 0]

\* a tracer as its constructor leaves it: buffer_size, the stream (null
\* when the output could not be created)
TracerStarts(limit, null) ==
    /\ bufferLimit = limit
    /\ stream = [null |-> null, bytes |-> <<>>]
    /\ buffer = <<>>
    /\ bufferMutex = 0
    /\ caller = [t \in Threads |-> [pc |-> "idle", n |-> 0, entry |-> <<>>]]
    /\ appended = <<>>

\* the compiler pass alone: none of the other programs runs
PassOnly ==
    /\ LoggerStarts(TRUE, -1)
    /\ oncall = NoCall
    /\ FreeListStarts(FALSE)
    /\ TracerStarts(0, TRUE)

\* trace_wrapper.sh: BBTRACE_STATIC_ONLY=1 for the plain build only
WrapperEnv == [p \in Procs |-> IF p = "plain" THEN EnvValue(<<"1">>) ELSE EnvUnset]

\* both processes before their pass has run on the bitcode `input`
Fresh ==
    /\ Enabled = [p \in Procs |-> [init |-> FALSE, val |-> FALSE]]
    /\ phase = [p \in Procs |-> "ready"]
    /\ module = [p \in Procs |-> NewModule(input)]
    /\ StaticInfos = [p \in Procs |-> <<>>]
    /\ PcInfos = [p \in Procs |-> <<>>]
    /\ bbinfo = [p \in Procs |-> NoFile]
    /\ invocations = [p \in Procs |-> <<>>]

Started == env = WrapperEnv /\ Fresh /\ PassOnly

Init ==
    /\ \E sh \in ModuleShapes :
          LET flat == FlatLens(sh)
          IN  \E body \in [1..(SeqSum(flat) - Len(flat)) -> BodyInsts] :
              \E terms \in [1..Len(flat) -> Terminators(MaxBlocks)] :
                  /\ input = BuildModule(sh, body, terms)
                  /\ WellFormed(input)
    /\ Started

\* control-flow inputs: one function of up to MaxCfgBlocks blocks, each
\* block its terminator alone
InitCfg ==
    /\ \E nb \in 1..MaxCfgBlocks :
          \E terms \in [1..nb -> CfgTerminators(nb)] :
              input = <<UserF([b \in 1..nb |-> <<terms[b]>>])>>
    /\ Started

RECURSIVE ArgSeqs(_)
\* the argument lists of at most n arguments
ArgSeqs(n) ==
    IF n = 0 THEN {<<>>}
    ELSE ArgSeqs(n - 1) \cup {Append(a, x) : a \in ArgSeqs(n - 1), x \in CallArgs}

\* call inputs: one function whose block calls an ordinary function with up
\* to MaxArgs arguments
InitCall ==
    /\ \E args \in ArgSeqs(MaxArgs) : input = <<UserF(<<<<CallI(args), RetI>>>>)>>
    /\ Started

\* body instructions of the block inputs: those of the other inputs and a
\* call that passes an i8
BlockBodyInsts == BodyInsts \cup {CallI(<<Arg("int", 8, AllOnes(8))>>)}

\* block inputs: one function whose entry block branches to its second
\* block; that block holds PHI nodes, body instructions and a terminator
\* (a return, or a branch back to itself, which makes it a loop header),
\* MaxSize instructions at most
InitBlock ==
    /\ \E np \in 0..(MaxSize - 1) : \E nbody \in 0..(MaxSize - 1 - np) :
          \E body \in [1..nbody -> BlockBodyInsts] :
              \E T \in {RetI, BrI(2), CondBrI(2, 2)} :
                  input = <<UserF(<<<<BrI(2)>>,
                                    [k \in 1..np |-> PhiI] \o body \o <<T>>>>)>>
    /\ Started

\* values of BBTRACE_STATIC_ONLY: unset, empty, and strings that start
\* with each accepted character or with another one
EnvValues ==
    {EnvUnset, EnvValue(<<>>), EnvValue(<<"1">>), EnvValue(<<"T">>),
     EnvValue(<<"t", "r", "u", "e">>), EnvValue(<<"Y">>), EnvValue(<<"y", "e", "s">>),
     EnvValue(<<"0">>), EnvValue(<<"0", "1">>), EnvValue(<<"n", "o">>)}

\* environment inputs: a module of one function, and any value of
\* BBTRACE_STATIC_ONLY in the environment of the plain process
InitEnv ==
    /\ input = <<UserF(<<<<LoadI, RetI>>>>)>>
    /\ \E e \in EnvValues : env = [WrapperEnv EXCEPT !["plain"] = e]
    /\ Fresh
    /\ PassOnly

\* faulty variant of isStaticOnlyMode: the environment is read at every
\* call
isStaticOnlyModeEveryCall(memo, e) == StaticOnlyFromEnv(e)

\* isStaticOnlyMode: the function-local static is computed from the
\* environment at the first call and returned unchanged afterwards
isStaticOnlyMode(memo, e) == IF memo.init THEN memo.val ELSE StaticOnlyFromEnv(e)

\* BasicBlockTracePass::run in process p: instrumentModule walks the
\* functions, writes the descriptor file and emits the PC map; whether the
\* file can be opened is up to the file system
RunPass(p) ==
    /\ phase[p] = "ready"
    /\ \E w \in {walkFunctions(module[p], isStaticOnlyMode(Enabled[p], env[p]))} :
       \E canOpen \in BOOLEAN :
          /\ module' = [module EXCEPT ![p] = emitPcMap(w.module, w.PcInfos)]
          /\ StaticInfos' = [StaticInfos EXCEPT ![p] = w.StaticInfos]
          /\ PcInfos' = [PcInfos EXCEPT ![p] = w.PcInfos]
          /\ bbinfo' = [bbinfo EXCEPT ![p] = dumpBasicBlockInfo(@, w.StaticInfos, canOpen)]
    /\ Enabled' = [Enabled EXCEPT ![p] =
                      [init |-> TRUE, val |-> isStaticOnlyMode(Enabled[p], env[p])]]
    /\ phase' = [phase EXCEPT ![p] = "done"]
    /\ invocations' = [invocations EXCEPT ![p] = Append(@, env[p])]
    /\ UNCHANGED <<input, env, loggerVars, oncall, freeListVars, tracerVars>>

\* trace_wrapper.sh step 2: opt with BBTRACE_STATIC_ONLY=1
RunPlain == RunPass("plain")

\* trace_wrapper.sh step 4: opt on the same bitcode, after the plain build
RunTraced == phase["plain"] = "done" /\ RunPass("traced")

Next == RunPlain \/ RunTraced

Spec == Init /\ [][Next]_vars

\* the pass manager of process p hands the pass its next module (the same
\* bitcode again); the function-local static of isStaticOnlyMode and the
\* descriptor file stay as they are
NextModule(p) ==
    /\ phase[p] = "done"
    /\ Len(invocations[p]) < MaxRuns
    /\ phase' = [phase EXCEPT ![p] = "ready"]
    /\ module' = [module EXCEPT ![p] = NewModule(input)]
    /\ StaticInfos' = [StaticInfos EXCEPT ![p] = <<>>]
    /\ PcInfos' = [PcInfos EXCEPT ![p] = <<>>]
    /\ UNCHANGED <<input, env, Enabled, bbinfo, invocations>>
    /\ UNCHANGED <<loggerVars, oncall, freeListVars, tracerVars>>

\* BBTRACE_STATIC_ONLY of process p is set to another value (or unset)
Setenv(p, e) ==
    /\ e # env[p]
    /\ env' = [env EXCEPT ![p] = e]
    /\ UNCHANGED <<input, Enabled, phase, module, StaticInfos, PcInfos, bbinfo,
                   invocations>>
    /\ UNCHANGED <<loggerVars, oncall, freeListVars, tracerVars>>

SetenvPlain == \E e \in EnvValues : Setenv("plain", e)

NextModulePlain == NextModule("plain")

NextEnv == RunPlain \/ RunTraced \/ SetenvPlain \/ NextModulePlain

\* the plain process with a changing environment and several pass
\* invocations, the traced process as the wrapper starts it
SpecEnv == InitEnv /\ [][NextEnv]_vars

\* the same two opt processes on the control-flow inputs
SpecCfg == InitCfg /\ [][Next]_vars

\* the same two opt processes on the call inputs
SpecCall == InitCall /\ [][Next]_vars

\* the same two opt processes on the block inputs
SpecBlock == InitBlock /\ [][Next]_vars

(***************************************************************************)
(* The trace runtime with several threads.  Every event hook              *)
(* (__bbtrace_on_basic_block, _on_loop, _on_mem, _on_branch, _on_call)     *)
(* returns at once when tracing is disabled; otherwise it takes its        *)
(* sequence number with an atomic fetch_add, formats its line in a local   *)
(* buffer, and hands the line to TraceLogger::log, which writes it and     *)
(* the newline while it holds mu_.  The steps of a thread are one action   *)
(* each where other threads can come between them.                         *)
(***************************************************************************)
\* largest number of hook calls of a process
MaxEvents == 3

EventNames == {"bb", "loop", "mem", "branch", "call"}

\* no compiler pass in this process
NoPass == input = <<>> /\ env = WrapperEnv /\ Fresh

\* TraceLogger::next_sequence: sequence_.fetch_add(1), which returns the
\* value before the addition
next_sequence(counter) == [seq |-> counter, counter |-> counter + 1]

\* the head of a hook in thread t: the tracing_disabled test, and
\* `const uint64_t seq = logger().next_sequence();`
bbtrace_on_event(t, event) ==
    /\ hook[t].pc = "idle"
    /\ sequence_ < MaxEvents
    /\ IF disabled
       THEN UNCHANGED <<sequence_, hook>>
       ELSE /\ sequence_' = next_sequence(sequence_).counter
            /\ hook' = [hook EXCEPT ![t] = [pc |-> "log", event |-> event,
                                            seq |-> next_sequence(sequence_).seq]]
    /\ UNCHANGED <<disabled, fd_, jsonl>>
    /\ UNCHANGED <<passVars, oncall, freeListVars, tracerVars>>

\* the tail of the hook: std::snprintf of the line, which starts with the
\* event name and seq, and TraceLogger::log, which returns when there is
\* no file and else writes the line and "\n" under the lock
log(t) ==
    /\ hook[t].pc = "log"
    /\ jsonl' = IF fd_ < 0 THEN jsonl
                ELSE Append(jsonl, [event |-> hook[t].event, seq |-> hook[t].seq,
                                    thread |-> t])
    /\ hook' = [hook EXCEPT ![t] = [pc |-> "idle", seq |-> 0]]
    /\ UNCHANGED <<disabled, fd_, sequence_>>
    /\ UNCHANGED <<passVars, oncall, freeListVars, tracerVars>>

\* __bbtrace_finalize, called by the destructor of a module:
\* flush_and_close closes the file under the lock
bbtrace_finalize ==
    /\ ~disabled
    /\ fd_ >= 0
    /\ fd_' = -1
    /\ UNCHANGED <<disabled, sequence_, jsonl, hook>>
    /\ UNCHANGED <<passVars, oncall, freeListVars, tracerVars>>

\* BBTRACE_DISABLE set or not; open_stream got a descriptor or -1
InitLogger ==
    /\ NoPass
    /\ \E off \in BOOLEAN : \E fd \in {-1, 3} : LoggerStarts(off, fd)
    /\ oncall = NoCall
    /\ FreeListStarts(FALSE)
    /\ TracerStarts(0, TRUE)

NextLogger ==
    \/ \E t \in Threads : \E event \in EventNames : bbtrace_on_event(t, event)
    \/ \E t \in Threads : log(t)
    \/ bbtrace_finalize

SpecLogger == InitLogger /\ [][NextLogger]_vars

(***************************************************************************)
(* FreeList<int>.  A range is (base, size); _ranges is the std::list, a    *)
(* position in it an index (Len + 1: end()).  insert and allocate are      *)
(* sequential, one action each.  A failed panic_if ends the run with the   *)
(* result "panic"; a failed assert ends it with "abort" in a build without *)
(* NDEBUG and does nothing in a build with it.                             *)
(***************************************************************************)
\* addresses are 0..MaxAddr
MaxAddr == 4

\* largest number of calls on one list
MaxCalls == 4

\* std::numeric_limits<int>::max()
IntMax == 2147483647

Range(base, size) == [base |-> base, size |-> size]

\* Range::precedes(T x)
precedes(r, x) == r.base + r.size <= x

\* Range::overlaps
overlaps(r, o) == ~precedes(r, o.base) /\ ~precedes(o, r.base)

RECURSIVE lower_bound(_, _, _, _)
\* std::lower_bound over [first, first + len) with the comparison
\* range.base < base: the bisection of the standard library
lower_bound(ranges, first, len, base) ==
    IF len <= 0 THEN first
    ELSE IF ranges[first + (len \div 2)].base < base
         THEN lower_bound(ranges, first + (len \div 2) + 1, len - (len \div 2) - 1, base)
         ELSE lower_bound(ranges, first, len \div 2, base)

\* std::list::erase and std::list::emplace at position it
erase(ranges, it) == SubSeq(ranges, 1, it - 1) \o SubSeq(ranges, it + 1, Len(ranges))

emplace(ranges, it, r) ==
    SubSeq(ranges, 1, it - 1) \o <<r>> \o SubSeq(ranges, it, Len(ranges))

\* "Merge left" of insert; st holds the list, `it`, and the locals base
\* and size
MergeLeft(st, ndebug) ==
    IF st.it = 1 THEN st
    ELSE IF ~ndebug /\ ~(st.ranges[st.it - 1].base + st.ranges[st.it - 1].size <= st.base)
         THEN [st EXCEPT !.result = "abort"]
         ELSE IF st.ranges[st.it - 1].base + st.ranges[st.it - 1].size = st.base
              THEN [st EXCEPT !.base = st.ranges[st.it - 1].base,
                              !.size = @ + st.ranges[st.it - 1].size,
                              !.ranges = erase(@, st.it - 1),
                              !.it = @ - 1]
              ELSE st

\* "Merge right" of insert
MergeRight(st, ndebug) ==
    IF st.result # "ok" \/ st.it > Len(st.ranges) THEN st
    ELSE IF ~ndebug /\ ~(st.base + st.size <= st.ranges[st.it].base)
         THEN [st EXCEPT !.result = "abort"]
         ELSE IF st.base + st.size = st.ranges[st.it].base
              THEN [st EXCEPT !.size = @ + st.ranges[st.it].size,
                              !.ranges = erase(@, st.it)]
              ELSE st

\* "Insert new range" of insert
InsertNew(st) ==
    IF st.result # "ok" THEN st
    ELSE [st EXCEPT !.ranges = emplace(@, st.it, Range(st.base, st.size))]

\* the two panic_if of insert, for the range r and the position it
DoubleFree(ranges, it, r) ==
    \/ it # Len(ranges) + 1 /\ overlaps(ranges[it], r)
    \/ it # 1 /\ overlaps(ranges[it - 1], r)

\* FreeList::insert on the list `ranges`: the list and the result
FreeList_insert(ranges, base, size, ndebug) ==
    LET it == lower_bound(ranges, 1, Len(ranges), base)
    IN  IF DoubleFree(ranges, it, Range(base, size))
        THEN [ranges |-> ranges, result |-> "panic"]
        ELSE LET st == InsertNew(MergeRight(MergeLeft([ranges |-> ranges, it |-> it,
                                                       base |-> base, size |-> size,
                                                       result |-> "ok"], ndebug),
                                            ndebug))
             IN  [ranges |-> st.ranges, result |-> st.result]

RECURSIVE BestFit(_, _, _, _)
\* the loop of allocate from position it on: best_it (0: end()) and
\* best_size
BestFit(ranges, it, size, best) ==
    IF it > Len(ranges) THEN best
    ELSE BestFit(ranges, it + 1, size,
                 IF size <= ranges[it].size /\ ranges[it].size <= best.size
                 THEN [it |-> it, size |-> ranges[it].size]
                 ELSE best)

\* FreeList::allocate on the list `ranges`: the list, whether a value is
\* returned, and the value
FreeList_allocate(ranges, size) ==
    LET best_it == BestFit(ranges, 1, size, [it |-> 0, size |-> IntMax]).it
    IN  IF best_it = 0
        THEN [ranges |-> ranges, result |-> "nullopt", value |-> 0]
        ELSE [ranges |-> IF ranges[best_it].size - size = 0
                         THEN erase(ranges, best_it)
                         ELSE [ranges EXCEPT ![best_it] =
                                   Range(@.base + size, @.size - size)],
              result |-> "ok", value |-> ranges[best_it].base]

\* the run has not been ended by a panic or a failed assert
Running == lastCall.result \notin {"panic", "abort"} /\ lastCall.n < MaxCalls

\* l.insert(base, size); _size is raised before the double-free test
insert(base, size) ==
    /\ Running
    /\ \E r \in {FreeList_insert(_ranges, base, size, NDEBUG)} :
          /\ _ranges' = r.ranges
          /\ lastCall' = [op |-> "insert", base |-> base, size |-> size,
                          ranges |-> _ranges, before |-> _size,
                          result |-> r.result, n |-> lastCall.n + 1]
    /\ _size' = _size + size
    /\ UNCHANGED NDEBUG
    /\ UNCHANGED <<passVars, loggerVars, oncall, tracerVars>>

\* l.allocate(size), size > 0
allocate(size) ==
    /\ Running
    /\ \E r \in {FreeList_allocate(_ranges, size)} :
          /\ _ranges' = r.ranges
          /\ _size' = IF r.result = "ok" THEN _size - size ELSE _size
          /\ lastCall' = [op |-> "allocate", base |-> r.value, size |-> size,
                          ranges |-> _ranges, before |-> _size,
                          result |-> r.result, n |-> lastCall.n + 1]
    /\ UNCHANGED NDEBUG
    /\ UNCHANGED <<passVars, loggerVars, oncall, tracerVars>>

InitFreeList ==
    /\ NoPass
    /\ LoggerStarts(TRUE, -1)
    /\ oncall = NoCall
    /\ \E ndebug \in BOOLEAN : FreeListStarts(ndebug)
    /\ TracerStarts(0, TRUE)

\* ranges [base, base + size) of addresses, the empty ones included
NextFreeList ==
    \/ \E base \in 0..MaxAddr : \E size \in 0..(MaxAddr - base) : insert(base, size)
    \/ \E size \in 1..MaxAddr : allocate(size)

SpecFreeList == InitFreeList /\ [][NextFreeList]_vars

(***************************************************************************)
(* __bbtrace_on_call, statement by statement.  The text of args_buf and    *)
(* buf is kept as its length: off is the local of that name, args_len is   *)
(* strlen(args_buf), len the result of the last snprintf.  A call has      *)
(* num_args arguments of one shape.                                        *)
(***************************************************************************)
\* largest num_args of a call
MaxNumArgs == 96

kJsonBufSize == 4096

Min(a, b) == IF a <= b THEN a ELSE b

HexDigit == <<"0", "1", "2", "3", "4", "5", "6", "7",
              "8", "9", "a", "b", "c", "d", "e", "f">>

RECURSIVE Hex(_)
\* the conversion %x (PRIx64, PRIxPTR)
Hex(v) == IF v < 16 THEN HexDigit[v + 1]
          ELSE Hex(v \div 16) \o HexDigit[(v % 16) + 1]

call_arg_kind_to_string(kind) ==
    CASE kind = CallArgKind("Integer") -> "int"
      [] kind = CallArgKind("Pointer") -> "ptr"
      [] kind = CallArgKind("Floating") -> "float"
      [] OTHER -> "unknown"

pointer_to_json(addr) ==
    IF addr = 0 THEN "null" ELSE "\"0x" \o Hex(addr) \o "\""

\* the text the format of the loop yields for argument idx
ArgJson(idx, arg) ==
    (IF idx = 0 THEN "" ELSE ",")
    \o "{\"idx\":" \o ToString(idx)
    \o ",\"kind\":\"" \o call_arg_kind_to_string(arg.kind)
    \o "\",\"bits\":" \o ToString(arg.bits)
    \o ",\"value\":\"0x" \o Hex(arg.value) \o "\"}"

\* the text of the final format in front of %s for args_buf, and behind it
CallJsonHead(seq, c) ==
    "{\"event\":\"call\",\"seq\":" \o ToString(seq)
    \o ",\"func\":" \o ToString(c.func_id)
    \o ",\"bb\":" \o ToString(c.bb_id)
    \o ",\"inst\":" \o ToString(c.inst_id)
    \o ",\"call_addr\":" \o pointer_to_json(c.call_site_addr)
    \o ",\"target_addr\":" \o pointer_to_json(c.target_addr)
    \o ",\"num_args\":" \o ToString(c.num_args)
    \o ",\"args\":"

CallJsonTail(ts) == ",\"ts_ns\":" \o ToString(ts) \o "}"

\* std::snprintf(dst, size, ...) for a text of length n: the value returned
\* and the number of characters stored in front of the terminating NUL
\* (none, and no NUL, when size is 0)
snprintf(size, n) ==
    [ret |-> n, stored |-> IF size = 0 THEN 0 ELSE Min(n, size - 1)]

\* off += std::snprintf(args_buf + off, sizeof(args_buf) - off, text), for
\* off <= sizeof(args_buf)
AppendArgs(c, text) ==
    [c EXCEPT !.off = @ + snprintf(kJsonBufSize - c.off, Len(text)).ret,
              !.args_len = IF kJsonBufSize - c.off = 0 THEN @
                           ELSE c.off + snprintf(kJsonBufSize - c.off, Len(text)).stored]

\* the shapes of an argument triple
ArgShapes ==
    [kind : 0..3, bits : {8, 64}, value : {0, 2147483647}]

\* lines 272-277: the disabled test, the sequence number, the opening "["
on_call_enter ==
    /\ oncall.pc = "start"
    /\ IF disabled
       THEN /\ oncall' = [oncall EXCEPT !.pc = "done"]
            /\ UNCHANGED sequence_
       ELSE /\ oncall' = [AppendArgs(oncall, "[") EXCEPT
                              !.pc = "loop", !.seq = next_sequence(sequence_).seq]
            /\ sequence_' = next_sequence(sequence_).counter
    /\ UNCHANGED <<disabled, fd_, jsonl, hook>>
    /\ UNCHANGED <<passVars, freeListVars, tracerVars>>

\* lines 280-289: one turn of the loop over the arguments
on_call_arg ==
    /\ oncall.pc = "loop"
    /\ oncall.idx < oncall.num_args
    /\ oncall' =
         LET c == AppendArgs(oncall, ArgJson(oncall.idx, oncall.arg))
         IN  IF c.off >= kJsonBufSize
             THEN [c EXCEPT !.pc = "close"]
             ELSE [c EXCEPT !.idx = @ + 1]
    /\ UNCHANGED <<passVars, loggerVars, freeListVars, tracerVars>>

\* line 291: the closing "]".  With off > sizeof(args_buf) the destination
\* is outside the array and the size wraps around: the call either ends the
\* process or stores "]" and a NUL out of bounds and goes on
on_call_close ==
    /\ \/ oncall.pc = "close"
       \/ oncall.pc = "loop" /\ oncall.idx >= oncall.num_args
    /\ IF oncall.off > kJsonBufSize
       THEN \E crashed \in BOOLEAN :
              oncall' = [oncall EXCEPT !.pc = IF crashed THEN "crashed" ELSE "format",
                                       !.off = @ + 1,
                                       !.out_of_bounds = TRUE]
       ELSE oncall' = [AppendArgs(oncall, "]") EXCEPT !.pc = "format"]
    /\ UNCHANGED <<passVars, loggerVars, freeListVars, tracerVars>>

\* lines 293-299: the line is formatted into buf
on_call_format ==
    /\ oncall.pc = "format"
    /\ \E ts \in {0, 2147483647} :
         oncall' =
           LET len == snprintf(kJsonBufSize,
                               Len(CallJsonHead(oncall.seq, oncall)) + oncall.args_len
                                  + Len(CallJsonTail(ts))).ret
           IN  [oncall EXCEPT !.len = len,
                              !.pc = IF len > 0 THEN "log" ELSE "done"]
    /\ UNCHANGED <<passVars, loggerVars, freeListVars, tracerVars>>

\* line 300 and TraceLogger::log: len bytes of buf go to the file
on_call_log ==
    /\ oncall.pc = "log"
    /\ oncall' = [oncall EXCEPT !.pc = "done"]
    /\ jsonl' = IF fd_ < 0 THEN jsonl
                ELSE Append(jsonl, [event |-> "call", seq |-> oncall.seq,
                                    bytes |-> oncall.len])
    /\ UNCHANGED <<disabled, fd_, sequence_, hook>>
    /\ UNCHANGED <<passVars, freeListVars, tracerVars>>

InitOnCall ==
    /\ NoPass
    /\ \E off \in BOOLEAN : LoggerStarts(off, 3)
    /\ \E n \in 0..MaxNumArgs : \E a \in ArgShapes :
         oncall = [pc |-> "start", func_id |-> 0, bb_id |-> 0, inst_id |-> 0,
                   call_site_addr |-> 4198400, target_addr |-> 0,
                   num_args |-> n, arg |-> a,
                   seq |-> 0, idx |-> 0, off |-> 0, args_len |-> 0, len |-> 0,
                   out_of_bounds |-> FALSE]
    /\ FreeListStarts(FALSE)
    /\ TracerStarts(0, TRUE)

NextOnCall ==
    \/ on_call_enter
    \/ on_call_arg
    \/ on_call_close
    \/ on_call_format
    \/ on_call_log

SpecOnCall == InitOnCall /\ [][NextOnCall]_vars

(***************************************************************************)
(* MicroOpVerboseTracer::append and ::flush, called by several threads.    *)
(* A byte of an entry is <<thread, number of the append, position>>, so    *)
(* that every byte ever appended is told from every other.  The stream     *)
(* takes every byte written to it.  appended lists the entries in the      *)
(* order in which their appends took bufferMutex.                          *)
(***************************************************************************)
\* largest params.buffer_size
MaxLimit == 3

\* largest length of an entry
MaxEntry == 2

\* largest number of append calls
MaxAppends == 3

\* the entry of the n-th append of thread t, of the given length
Entry(t, n, length) == [k \in 1..length |-> <<t, n, k>>]

\* the test in append that leads to the write
FlushNeededAbove(limit, size) == limit = 0 \/ size > limit

FlushNeeded(limit, size) == limit = 0 \/ size >= limit

\* stream->write(buffer.data(), buffer.size()); stream->flush();
\* buffer.clear();
WriteOut ==
    /\ stream' = [stream EXCEPT !.bytes = @ \o buffer]
    /\ buffer' = <<>>

\* append(entry) is called: `if (!stream) return;`, else the thread goes
\* for the lock
append_call(t, length) ==
    /\ caller[t].pc = "idle"
    /\ SeqSum([u \in Threads |-> caller[u].n]) < MaxAppends
    /\ caller' = [caller EXCEPT ![t] =
                     [pc |-> IF stream.null THEN "idle" ELSE "append_lock",
                      n |-> @.n + 1,
                      entry |-> Entry(t, @.n + 1, length)]]
    /\ UNCHANGED <<bufferLimit, stream, buffer, bufferMutex, appended>>
    /\ UNCHANGED <<passVars, loggerVars, oncall, freeListVars>>

\* std::lock_guard guard(bufferMutex) of append
append_lock(t) ==
    /\ caller[t].pc = "append_lock"
    /\ bufferMutex = 0
    /\ bufferMutex' = t
    /\ appended' = Append(appended, caller[t].entry)
    /\ caller' = [caller EXCEPT ![t].pc = "append_buffer"]
    /\ UNCHANGED <<bufferLimit, stream, buffer>>
    /\ UNCHANGED <<passVars, loggerVars, oncall, freeListVars>>

\* buffer.append(entry)
append_buffer(t) ==
    /\ caller[t].pc = "append_buffer"
    /\ buffer' = buffer \o caller[t].entry
    /\ caller' = [caller EXCEPT ![t].pc = "append_test"]
    /\ UNCHANGED <<bufferLimit, stream, bufferMutex, appended>>
    /\ UNCHANGED <<passVars, loggerVars, oncall, freeListVars>>

\* the test, the write, and the end of the guard's scope
append_test(t) ==
    /\ caller[t].pc = "append_test"
    /\ IF FlushNeeded(bufferLimit, Len(buffer))
       THEN WriteOut
       ELSE UNCHANGED <<stream, buffer>>
    /\ bufferMutex' = 0
    /\ caller' = [caller EXCEPT ![t].pc = "idle"]
    /\ UNCHANGED <<bufferLimit, appended>>
    /\ UNCHANGED <<passVars, loggerVars, oncall, freeListVars>>

\* flush() is called: `if (!stream) return;`
flush_call(t) ==
    /\ caller[t].pc = "idle"
    /\ ~stream.null
    /\ caller' = [caller EXCEPT ![t].pc = "flush_lock"]
    /\ UNCHANGED <<bufferLimit, stream, buffer, bufferMutex, appended>>
    /\ UNCHANGED <<passVars, loggerVars, oncall, freeListVars>>

\* std::lock_guard guard(bufferMutex) of flush
flush_lock(t) ==
    /\ caller[t].pc = "flush_lock"
    /\ bufferMutex = 0
    /\ bufferMutex' = t
    /\ caller' = [caller EXCEPT ![t].pc = "flush_write"]
    /\ UNCHANGED <<bufferLimit, stream, buffer, appended>>
    /\ UNCHANGED <<passVars, loggerVars, oncall, freeListVars>>

\* `if (buffer.empty()) return;`, the write, and the end of the guard's
\* scope
flush_write(t) ==
    /\ caller[t].pc = "flush_write"
    /\ IF buffer = <<>>
       THEN UNCHANGED <<stream, buffer>>
       ELSE WriteOut
    /\ bufferMutex' = 0
    /\ caller' = [caller EXCEPT ![t].pc = "idle"]
    /\ UNCHANGED <<bufferLimit, appended>>
    /\ UNCHANGED <<passVars, loggerVars, oncall, freeListVars>>

InitTracer ==
    /\ NoPass
    /\ LoggerStarts(TRUE, -1)
    /\ oncall = NoCall
    /\ FreeListStarts(FALSE)
    /\ \E limit \in 0..MaxLimit : \E null \in BOOLEAN : TracerStarts(limit, null)

NextTracer ==
    \E t \in Threads :
        \/ \E length \in 1..MaxEntry : append_call(t, length)
        \/ append_lock(t)
        \/ append_buffer(t)
        \/ append_test(t)
        \/ flush_call(t)
        \/ flush_lock(t)
        \/ flush_write(t)

SpecTracer == InitTracer /\ [][NextTracer]_vars

(***************************************************************************)
(* Properties.  They are read off what a finished pass leaves behind: the  *)
(* descriptor lines, the .bbtrace_map initializer, the two vectors and the *)
(* function bodies, and compared with the input module.                    *)
(***************************************************************************)
Done(p) == phase[p] = "done"

Instrumented(p) == Done(p) /\ ~Enabled[p].val

\* eligibility as the specification words it: a body, and a name that does
\* not start with __bbtrace_
Eligible(i) == ~input[i].decl /\ input[i].prefix # "__bbtrace_"

EligibleFunctions == {i \in 1..Len(input) : Eligible(i)}

\* the number of eligible functions in front of function i
ExpectedFuncId(i) == Cardinality({j \in EligibleFunctions : j < i})

RECURSIVE TraversalFrom(_)
\* the <<function, block>> positions of the eligible blocks from function i
\* on, in module order and layout order
TraversalFrom(i) ==
    IF i > Len(input) THEN <<>>
    ELSE (IF Eligible(i) THEN [b \in 1..Len(input[i].blocks) |-> <<i, b>>] ELSE <<>>)
         \o TraversalFrom(i + 1)

EligibleBlocks == TraversalFrom(1)

EntriesOf(map, g) == SelectSeq(map, LAMBDA e : e.func_id = g)

\* the on_basic_block calls of a block
BlockHooks(blk) ==
    SelectSeq(blk, LAMBDA I : ~I.orig /\ I.callee.prefix = "__bbtrace_"
                              /\ I.callee.base = "on_basic_block")

\* C1: the eligible functions receive func_ids 0..N-1 in module order with
\* no gaps; declarations and runtime-prefixed functions, the constructor
\* and destructor of the pass included, receive none.
C1_FuncIdsDense ==
    \A p \in Procs : Done(p) =>
        LET map == module[p].pcmap
        IN  /\ {map[k].func_id : k \in 1..Len(map)}
                  = 0..(Cardinality(EligibleFunctions) - 1)
            /\ \A k \in 1..Len(map) :
                  /\ map[k].address.fn \in EligibleFunctions
                  /\ map[k].func_id = ExpectedFuncId(map[k].address.fn)
            /\ Len(StaticInfos[p]) = Len(map)
            /\ \A k \in 1..Len(map) : StaticInfos[p][k].FuncId = map[k].func_id

\* an instrumented run on a module whose second function is runtime-named
\* and whose third function received func_id 1
C1_Witness ==
    /\ Instrumented("traced")
    /\ Len(input) = 3 /\ Eligible(1) /\ ~Eligible(2) /\ Eligible(3)
    /\ input[2].prefix = "__bbtrace_"
    /\ \E k \in 1..Len(module["traced"].pcmap) :
          /\ module["traced"].pcmap[k].func_id = 1
          /\ module["traced"].pcmap[k].address.fn = 3

\* C2: in every eligible function the blocks receive bb_ids 0..B-1 in
\* layout order, and no two eligible blocks of the module share a
\* (func_id, bb_id) pair.
C2_BlockIdsDense ==
    \A p \in Procs : Done(p) =>
        LET map == module[p].pcmap
        IN  /\ \A i \in EligibleFunctions :
                  LET es == EntriesOf(map, ExpectedFuncId(i))
                  IN  /\ Len(es) = Len(input[i].blocks)
                      /\ \A b \in 1..Len(es) : es[b].bb_id = b - 1
            /\ \A k1, k2 \in 1..Len(map) :
                  k1 # k2 => <<map[k1].func_id, map[k1].bb_id>>
                                # <<map[k2].func_id, map[k2].bb_id>>
            /\ \A k \in 1..Len(map) : StaticInfos[p][k].BbId = map[k].bb_id
            /\ Instrumented(p) =>
                  \A i \in EligibleFunctions : \A b \in 1..Len(input[i].blocks) :
                      \A h \in 1..Len(BlockHooks(module[p].functions[i].blocks[b])) :
                          BlockHooks(module[p].functions[i].blocks[b])[h].args[2].val = b - 1

\* a finished run on a module with a several-block function followed by
\* another eligible function: the pairs (0,0), (0,1), (1,0)
C2_Witness ==
    /\ Done("plain")
    /\ \E i, j \in EligibleFunctions : i < j /\ Len(input[i].blocks) >= 2
    /\ \E k \in 1..Len(module["plain"].pcmap) :
          /\ module["plain"].pcmap[k].func_id = 0
          /\ module["plain"].pcmap[k].bb_id = 1
    /\ \E k \in 1..Len(module["plain"].pcmap) : module["plain"].pcmap[k].func_id = 1

\* the address constant that denotes block b of function i
Denotes(addr, i, b) == addr.fn = i /\ (addr.ty = "blockaddress" => addr.bb = b)

\* C3: for a module with an eligible block, the descriptor (when the file
\* could be written) has exactly one record and the .bbtrace_map array
\* exactly one entry for every eligible (function, block), in traversal
\* order, and nothing for any other block.
C3_OnePerEligibleBlock ==
    \A p \in Procs : (Done(p) /\ EligibleBlocks # <<>>) =>
        LET map == module[p].pcmap
            lines == bbinfo[p].lines
        IN  /\ Len(map) = Len(EligibleBlocks)
            /\ \A k \in 1..Len(map) :
                  /\ map[k].func_id = ExpectedFuncId(EligibleBlocks[k][1])
                  /\ map[k].bb_id = EligibleBlocks[k][2] - 1
                  /\ Denotes(map[k].address, EligibleBlocks[k][1], EligibleBlocks[k][2])
            /\ bbinfo[p].written =>
                  /\ Len(lines) = Len(EligibleBlocks)
                  /\ \A k \in 1..Len(lines) :
                        /\ lines[k].func_id = ExpectedFuncId(EligibleBlocks[k][1])
                        /\ lines[k].bb_id = EligibleBlocks[k][2] - 1

\* a written descriptor of two records for a module that also holds a
\* function that is not eligible
C3_Witness ==
    /\ Done("traced") /\ bbinfo["traced"].written
    /\ Len(bbinfo["traced"].lines) = 2
    /\ Len(module["traced"].pcmap) = 2
    /\ \E i \in 1..Len(input) : ~Eligible(i)

RECURSIVE Concat(_)
Concat(ss) == IF ss = <<>> THEN <<>> ELSE Head(ss) \o Concat(Tail(ss))

\* the instruction entries of the function with func_id g, block after block
InstsOfFunc(p, g) ==
    LET es == SelectSeq(StaticInfos[p], LAMBDA E : E.FuncId = g)
    IN  Concat([k \in 1..Len(es) |-> es[k].Instructions])

ClassOf(Kind) == IF Kind \in {"load", "store"} THEN "mem" ELSE Kind

\* the inst_ids of one class, in traversal order
IdsOfClass(insts, c) ==
    LET sel == SelectSeq(insts, LAMBDA N : ClassOf(N.Kind) = c)
    IN  [j \in 1..Len(sel) |-> sel[j].InstId]

\* the class the specification gives an instruction of the input, by the
\* printed opcode and callee
ExpectedKind(text) ==
    CASE text.op = "load" -> "load"
      [] text.op = "store" -> "store"
      [] text.op = "br" -> "branch"
      [] text.op = "call" /\ text.callee.kind = "function"
            /\ text.callee.prefix # "__bbtrace_" -> "call"
      [] OTHER -> "generic"

StaticOnly(p) == Done(p) /\ Enabled[p].val

\* a descriptor line without the printed text of its instructions
WithoutText(line) ==
    [line EXCEPT !.insts = [j \in 1..Len(line.insts) |->
                               [kind |-> line.insts[j].kind,
                                inst_id |-> line.insts[j].inst_id,
                                targets |-> line.insts[j].targets]]]

BothWritten ==
    /\ StaticOnly("plain") /\ Instrumented("traced")
    /\ bbinfo["plain"].written /\ bbinfo["traced"].written

\* C5: for the same input module the static-only run and the instrumented
\* run write the same descriptor file (same records, each with the same
\* text, kind, inst_id and targets of its instructions) and the same
\* .bbtrace_map array.
C5_SameArtifacts ==
    BothWritten =>
        /\ bbinfo["plain"].lines = bbinfo["traced"].lines
        /\ module["plain"].pcmap = module["traced"].pcmap

\* what the two runs do agree on: everything but the printed text
C5_SameButText ==
    BothWritten =>
        /\ Len(bbinfo["plain"].lines) = Len(bbinfo["traced"].lines)
        /\ \A k \in 1..Len(bbinfo["plain"].lines) :
              WithoutText(bbinfo["plain"].lines[k]) = WithoutText(bbinfo["traced"].lines[k])
        /\ module["plain"].pcmap = module["traced"].pcmap

\* all instructions of the functions of a module, in layout order
AllInsts(funcs) ==
    Concat([f \in 1..Len(funcs) |-> Concat(funcs[f].blocks)])

\* the inline asm calls that emit a .bbtrace_inst record
IsMarker(I) == ~I.orig /\ I.callee.kind = "asm" /\ I.callee.base = ".bbtrace_inst"

InstRecords(p) == SelectSeq(AllInsts(module[p].functions), IsMarker)

\* the calls the specification calls instrumented
IsPlainCall(I) ==
    /\ I.op = "call" /\ I.callee.kind = "function" /\ I.callee.prefix # "__bbtrace_"

\* the loads, stores and instrumented calls of the eligible blocks
RecordedInsts ==
    SelectSeq(AllInsts([i \in 1..Len(input) |->
                           IF Eligible(i) THEN input[i] ELSE [input[i] EXCEPT !.blocks = <<>>]]),
              LAMBDA I : I.op \in {"load", "store"} \/ IsPlainCall(I))

\* C6: the number of .bbtrace_inst records of a module is the number of
\* loads, stores and instrumented calls of its eligible blocks.
C6_RecordPerMemOrCall ==
    \A p \in Procs : Done(p) => Len(InstRecords(p)) = Len(RecordedInsts)

\* the on_basic_block argument and the PC-map address of the k-th block
HookAddressOk(p, k) ==
    LET i == EligibleBlocks[k][1]
        b == EligibleBlocks[k][2]
        hooks == BlockHooks(module[p].functions[i].blocks[b])
    IN  /\ Len(hooks) = 1
        /\ hooks[1].args[4] = module[p].pcmap[k].address

\* C7: in the PC map and in the on_basic_block argument the address of a
\* block is the function pointer iff the block is the entry block; every
\* other block has its own block address, so no two blocks of a function
\* share an address.
C7_EntryAddress ==
    \A p \in Procs : Done(p) =>
        LET map == module[p].pcmap
        IN  /\ \A k \in 1..Len(map) :
                  /\ (map[k].address.ty = "funcptr") <=> (EligibleBlocks[k][2] = 1)
                  /\ map[k].address.fn = EligibleBlocks[k][1]
                  /\ EligibleBlocks[k][2] # 1 =>
                        /\ map[k].address.ty = "blockaddress"
                        /\ map[k].address.bb = EligibleBlocks[k][2]
                  /\ Instrumented(p) => HookAddressOk(p, k)
            /\ \A k1, k2 \in 1..Len(map) : k1 # k2 => map[k1].address # map[k2].address

\* an instrumented function of several blocks
C7_Witness ==
    /\ Instrumented("traced")
    /\ \E k \in 1..Len(module["traced"].pcmap) :
          /\ module["traced"].pcmap[k].address.ty = "blockaddress"
          /\ module["traced"].pcmap[k].address.bb = 2
          /\ HookAddressOk("traced", k)

\* the calls the pass must leave alone
IsExcludedCall(I) ==
    /\ I.op = "call"
    /\ \/ I.callee.kind \in {"intrinsic", "asm"}
       \/ I.callee.prefix = "__bbtrace_"

\* the first instruction of the input at or after position k of a block
NextOriginal(blk, k) ==
    blk[CHOOSE j \in k..Len(blk) : blk[j].orig /\ \A m \in k..(j - 1) : ~blk[m].orig]

\* instructions the pass puts in front of the instruction they describe
IsPerInstInsertion(I) ==
    /\ ~I.orig
    /\ I.callee.base \in {"on_mem", "on_branch", "on_call", ".bbtrace_inst",
                          "returnaddress", "%taken", "%taken_addr"}

\* C8: intrinsic calls, inline-asm calls and calls to __bbtrace_ functions
\* are never given an inst_id, a hook or an inst-PC record, and do not
\* advance the call counter: the ids of the other calls stay dense.
C8_ExcludedCalls ==
    \A p \in Procs : Done(p) =>
        /\ \A k \in 1..Len(StaticInfos[p]) :
              \A j \in 1..Len(StaticInfos[p][k].Instructions) :
                  LET N == StaticInfos[p][k].Instructions[j]
                  IN  (N.Buffer.op = "call" /\ ~IsPlainCall(N.Buffer)) =>
                          /\ N.Kind = "generic"
                          /\ InstObj(N).inst_id = <<>>
        /\ \A i \in EligibleFunctions : \A b \in 1..Len(input[i].blocks) :
              LET blk == module[p].functions[i].blocks[b]
              IN  \A k \in 1..Len(blk) :
                      IsPerInstInsertion(blk[k]) => ~IsExcludedCall(NextOriginal(blk, k))
        /\ \A i \in EligibleFunctions :
              IdsOfClass(InstsOfFunc(p, ExpectedFuncId(i)), "call")
                 = [j \in 1..Len(SelectSeq(Concat(input[i].blocks), IsPlainCall)) |-> j - 1]

\* an instrumented block in which an ordinary call follows an intrinsic or
\* inline-asm call and still has call id 0
C8_Witness ==
    /\ Instrumented("traced")
    /\ \E k \in 1..Len(StaticInfos["traced"]) :
          LET insts == StaticInfos["traced"][k].Instructions
          IN  \E j1, j2 \in 1..Len(insts) :
                  /\ j1 < j2
                  /\ insts[j1].Buffer.op = "call"
                  /\ insts[j1].Buffer.callee.kind \in {"intrinsic", "asm"}
                  /\ insts[j1].Kind = "generic"
                  /\ insts[j2].Kind = "call" /\ insts[j2].InstId = 0

\* C9: a direct call to a __bbtrace_ function in an eligible block still
\* appears in the block's record, as an element of kind "generic" without
\* inst_id: insts has one element for every instruction of the block.
C9_RuntimeCallListed ==
    \A p \in Procs : (Done(p) /\ bbinfo[p].written) =>
        \A k \in 1..Len(bbinfo[p].lines) :
            LET blk == input[EligibleBlocks[k][1]].blocks[EligibleBlocks[k][2]]
                insts == bbinfo[p].lines[k].insts
            IN  /\ Len(insts) = Len(blk)
                /\ \A j \in 1..Len(blk) :
                      (blk[j].op = "call" /\ blk[j].callee.prefix = "__bbtrace_") =>
                          /\ insts[j].kind = "generic"
                          /\ insts[j].inst_id = <<>>

\* C10: in static-only mode no instruction is inserted into any block, no
\* inst-PC marker in particular, so there are no .bbtrace_inst records.
C10_NoMutation ==
    \A p \in Procs : StaticOnly(p) =>
        /\ module[p].functions = input
        /\ InstRecords(p) = <<>>

\* C10 as the code has it: in static-only mode the pass inserts an inst-PC
\* marker directly in front of every load and store of an eligible block,
\* and nothing else: no other instruction and no function is added.
C10_OnlyMarkers ==
    \A p \in Procs : StaticOnly(p) =>
        /\ Len(module[p].functions) = Len(input)
        /\ \A i \in 1..Len(input) : ~Eligible(i) => module[p].functions[i] = input[i]
        /\ \A i \in EligibleFunctions :
              LET F == module[p].functions[i]
              IN  /\ [F EXCEPT !.blocks = input[i].blocks] = input[i]
                  /\ Len(F.blocks) = Len(input[i].blocks)
                  /\ \A b \in 1..Len(F.blocks) :
                        LET blk == F.blocks[b]
                        IN  /\ SelectSeq(blk, LAMBDA I : I.orig) = input[i].blocks[b]
                            /\ \A k \in 1..Len(blk) :
                                  /\ ~blk[k].orig =>
                                        /\ IsMarker(blk[k])
                                        /\ blk[k + 1].orig
                                        /\ blk[k + 1].op \in {"load", "store"}
                                  /\ (blk[k].orig /\ blk[k].op \in {"load", "store"}) =>
                                        (k > 1 /\ IsMarker(blk[k - 1]))
        /\ Len(InstRecords(p))
              = Len(SelectSeq(RecordedInsts, LAMBDA I : I.op \in {"load", "store"}))

\* a static-only run that put a marker in front of a load
C10_Witness ==
    /\ StaticOnly("plain")
    /\ \E i \in EligibleFunctions :
          LET blk == module["plain"].functions[i].blocks[1]
          IN  /\ Len(blk) >= 2
              /\ IsMarker(blk[1])
              /\ blk[2].orig /\ blk[2].op = "load"

\* instructions that call a runtime hook, or compute a value for one
IsHookOrFeeder(I) ==
    \/ I.op = "call" /\ I.callee.kind # "asm" /\ I.callee.prefix = "__bbtrace_"
    \/ I.op = "call" /\ I.callee.base = "returnaddress"
    \/ I.op \in {"select", "zext", "trunc", "bitcast", "ptrtoint"}

\* C11: a static-only run adds no call to a runtime hook, no select or cast
\* that feeds one, no hook declaration and no global constructor or
\* destructor entry, and still allocates the ids and produces the
\* descriptor records and the PC-map entries of every eligible block.
C11_StaticOnlyNoHooks ==
    \A p \in Procs : StaticOnly(p) =>
        /\ module[p].ctors = <<>> /\ module[p].dtors = <<>>
        /\ [i \in 1..Len(module[p].functions) |->
               [prefix |-> module[p].functions[i].prefix,
                base |-> module[p].functions[i].base]]
              = [i \in 1..Len(input) |-> [prefix |-> input[i].prefix, base |-> input[i].base]]
        /\ \A I \in {AllInsts(module[p].functions)[k] :
                        k \in 1..Len(AllInsts(module[p].functions))} :
              ~I.orig => ~IsHookOrFeeder(I)
        /\ Len(module[p].pcmap) = Len(EligibleBlocks)
        /\ Len(StaticInfos[p]) = Len(EligibleBlocks)
        /\ \A k \in 1..Len(StaticInfos[p]) :
              LET blk == input[EligibleBlocks[k][1]].blocks[EligibleBlocks[k][2]]
                  kept == SelectSeq(blk, LAMBDA I : ~(I.op = "call"
                                                     /\ I.callee.prefix = "__bbtrace_"))
                  insts == StaticInfos[p][k].Instructions
              IN  /\ Len(insts) = Len(kept)
                  /\ \A j \in 1..Len(kept) : insts[j].Kind = ExpectedKind(kept[j])
        /\ (bbinfo[p].written => Len(bbinfo[p].lines) = Len(EligibleBlocks))

\* a static-only run over a block with an ordinary call and a branch, which
\* got call id 0 and branch id 0 in the descriptor that was written
C11_Witness ==
    /\ StaticOnly("plain") /\ bbinfo["plain"].written
    /\ \E k \in 1..Len(bbinfo["plain"].lines) :
          LET insts == bbinfo["plain"].lines[k].insts
          IN  /\ Len(insts) = 2
              /\ insts[1].kind = "call" /\ insts[1].inst_id = <<0>>
              /\ insts[2].kind = "branch" /\ insts[2].inst_id = <<0>>
    /\ module["plain"].ctors = <<>>

(***************************************************************************)
(* Control flow of the input, computed apart from the pass: dominators by  *)
(* the iterative data-flow equations, natural loops by forward search.     *)
(***************************************************************************)
Preds(blocks, b) == {q \in 1..Len(blocks) : b \in Successors(blocks, q)}

RECURSIVE DomIter(_, _, _)
\* Dom(1) = {1}, Dom(b) = {b} + the blocks in Dom(q) of every reachable
\* predecessor q of b
DomIter(blocks, reach, D) ==
    LET N == [b \in reach |->
                 IF b = 1 THEN {1}
                 ELSE {b} \cup {d \in reach : \A q \in Preds(blocks, b) \cap reach : d \in D[q]}]
    IN  IF N = D THEN D ELSE DomIter(blocks, reach, N)

Dom(blocks, reach) == DomIter(blocks, reach, [b \in reach |-> reach])

\* reachable sources of the back edges into h, given the dominator sets
BackEdgesInto(blocks, dom, h) ==
    {t \in Preds(blocks, h) \cap DOMAIN dom : h \in dom[t]}

\* the natural loop of header h: h and the blocks that reach a back edge
\* into h without passing through h
NaturalLoop(blocks, dom, h) ==
    {h} \cup {b \in (DOMAIN dom) \ {h} :
                 ReachFrom(blocks, {b}, {h}) \cap BackEdgesInto(blocks, dom, h) # {}}

\* the loops of a function as a set of <<header, blocks>> pairs
CfgLoopsFrom(blocks, dom) ==
    {<<h, NaturalLoop(blocks, dom, h)>> :
        h \in {g \in DOMAIN dom : BackEdgesInto(blocks, dom, g) # {}}}

CfgLoops(blocks) == CfgLoopsFrom(blocks, Dom(blocks, Reachable(blocks)))

CfgHeaders(loops) == {L[1] : L \in loops}

\* the loops around block b
CfgLoopsAround(loops, b) == {L \in loops : b \in L[2]}

\* header of the innermost loop around b (there is one)
CfgInnermost(loops, b) ==
    (CHOOSE L \in CfgLoopsAround(loops, b) :
        \A K \in CfgLoopsAround(loops, b) : L[2] \subseteq K[2])[1]

\* the calls to one runtime hook in a block
HooksNamed(blk, base) ==
    SelectSeq(blk, LAMBDA I : ~I.orig /\ I.op = "call" /\ I.callee.prefix = "__bbtrace_"
                              /\ I.callee.base = base)

\* the entry hooks of the blocks `out` of the function with func_id fid,
\* whose loop headers are `headers`
EntryHooksOk(out, fid, headers) ==
    /\ \A b \in 1..Len(out) :
          /\ Len(HooksNamed(out[b], "on_basic_block")) = 1
          /\ HooksNamed(out[b], "on_basic_block")[1].args[1] = ConstInt("i32", fid)
          /\ HooksNamed(out[b], "on_basic_block")[1].args[2] = ConstInt("i32", b - 1)
          /\ Len(HooksNamed(out[b], "on_loop")) = (IF b \in headers THEN 1 ELSE 0)
          /\ b \in headers =>
                /\ HooksNamed(out[b], "on_loop")[1].args[1] = ConstInt("i32", fid)
                /\ HooksNamed(out[b], "on_loop")[1].args[2]
                      = HooksNamed(out[b], "on_basic_block")[1].args[3]
                /\ HooksNamed(out[b], "on_loop")[1].args[2].val >= 0
    /\ \A b, c \in headers :
          b # c => HooksNamed(out[b], "on_loop")[1].args[2]
                      # HooksNamed(out[c], "on_loop")[1].args[2]

\* C12: after an instrumented run every eligible block holds exactly one
\* on_basic_block call, with its own func_id and bb_id, and exactly one
\* on_loop call if it is the header of a loop and none otherwise; the
\* on_loop call carries the func_id and the id of that loop, which no
\* other header of the function shares.
C12_EntryHooks ==
    \A p \in Procs : Instrumented(p) =>
        \A i \in EligibleFunctions :
            EntryHooksOk(module[p].functions[i].blocks, ExpectedFuncId(i),
                         CfgHeaders(CfgLoops(input[i].blocks)))

\* a function of three blocks whose second block is the header of a loop
\* that holds the third
LoopOfTwo(loops) == <<2, {2, 3}>> \in loops /\ 3 \notin CfgHeaders(loops)

\* an instrumented function of three blocks of which the second is a loop
\* header with an on_loop call and the third, inside that loop, has none
C12_Witness ==
    /\ Instrumented("traced")
    /\ Len(input[1].blocks) = 3
    /\ LoopOfTwo(CfgLoops(input[1].blocks))
    /\ Len(HooksNamed(module["traced"].functions[1].blocks[2], "on_loop")) = 1
    /\ Len(HooksNamed(module["traced"].functions[1].blocks[3], "on_loop")) = 0
    /\ Len(HooksNamed(module["traced"].functions[1].blocks[3], "on_basic_block")) = 1

\* the positions of a sequence whose element satisfies Test, ascending
PositionsOf(seq, Test(_)) ==
    SelectSeq([k \in 1..Len(seq) |-> k], LAMBDA k : Test(seq[k]))

IsEntryHook(I) ==
    /\ ~I.orig /\ I.op = "call" /\ I.callee.prefix = "__bbtrace_"
    /\ I.callee.base \in {"on_basic_block", "on_loop"}

IsInstHook(I) ==
    /\ ~I.orig /\ I.op = "call" /\ I.callee.prefix = "__bbtrace_"
    /\ I.callee.base \in {"on_mem", "on_branch", "on_call"}

\* the instructions of the input a hook describes
IsDescribed(I) == I.op \in {"load", "store", "br"} \/ IsPlainCall(I)

\* hook H is the hook of the input instruction I
Describes(H, I) ==
    CASE I.op = "load" -> H.callee.base = "on_mem" /\ H.args[6] = ConstInt("i1", 0)
      [] I.op = "store" -> H.callee.base = "on_mem" /\ H.args[6] = ConstInt("i1", 1)
      [] I.op = "br" -> H.callee.base = "on_branch"
      [] OTHER -> H.callee.base = "on_call"

\* the order of the hooks of an instrumented block `out` of input block blk
HookOrderOk(blk, out) ==
    LET entry == PositionsOf(out, IsEntryHook)
        hooks == PositionsOf(out, IsInstHook)
        orig == PositionsOf(out, LAMBDA I : I.orig)
        desc == PositionsOf(blk, IsDescribed)
    IN  /\ Len(orig) = Len(blk)
        /\ Len(hooks) = Len(desc)
        /\ \A e \in 1..Len(entry) : \A j \in 1..Len(hooks) : entry[e] < hooks[j]
        /\ \A j \in 1..Len(hooks) :
              /\ Describes(out[hooks[j]], blk[desc[j]])
              /\ out[orig[desc[j]]] = blk[desc[j]]
              /\ hooks[j] < orig[desc[j]]
              /\ desc[j] > 1 => orig[desc[j] - 1] < hooks[j]

\* C13: in every instrumented block the on_basic_block call and the
\* on_loop call come before every on_mem, on_branch and on_call hook; every
\* such hook stands in front of the instruction it describes and behind
\* the instruction before that one, so the hooks are in the order of the
\* instructions they describe.
C13_HookOrder ==
    \A p \in Procs : Instrumented(p) =>
        \A i \in EligibleFunctions : \A b \in 1..Len(input[i].blocks) :
            HookOrderOk(input[i].blocks[b], module[p].functions[i].blocks[b])

\* an instrumented loop header that loads and then branches: on_loop,
\* on_basic_block, on_mem, the load, on_branch, the branch
C13_Witness ==
    /\ Instrumented("traced")
    /\ \E i \in EligibleFunctions : \E b \in 1..Len(input[i].blocks) :
          LET out == module["traced"].functions[i].blocks[b]
              hooks == PositionsOf(out, LAMBDA I : IsEntryHook(I) \/ IsInstHook(I))
          IN  /\ [j \in 1..Len(hooks) |-> out[hooks[j]].callee.base]
                    = <<"on_loop", "on_basic_block", "on_mem", "on_branch">>
              /\ input[i].blocks[b][1].op = "load"

\* C14: in both modes the label of every inst-PC record stands directly in
\* front of the instrumented load, store or call itself: the instruction
\* after the marker is that instruction of the input, no hook call.
C14_LabelAtInstruction ==
    \A p \in Procs : Done(p) =>
        \A i \in EligibleFunctions : \A b \in 1..Len(input[i].blocks) :
            LET out == module[p].functions[i].blocks[b]
            IN  \A k \in 1..Len(out) :
                    IsMarker(out[k]) =>
                        /\ out[k + 1].orig
                        /\ out[k + 1].op \in {"load", "store", "call"}

\* the marker at position k of block `out` and what follows it
MarkerPlaced(out, k, instrumented) ==
    IF instrumented
    THEN /\ IsInstHook(out[k + 1]) /\ out[k + 1].callee.base = "on_mem"
         /\ SubSeq(out[k + 1].args, 1, 3) = SubSeq(out[k].args, 1, 3)
         /\ out[k + 2].orig /\ out[k + 2].op \in {"load", "store"}
    ELSE out[k + 1].orig /\ out[k + 1].op \in {"load", "store"}

\* C14 as the code has it: the label of every inst-PC record stands in
\* front of its load or store with no instruction of the input between
\* them; in static-only mode directly in front of it, in instrumented mode
\* directly in front of the on_mem call (with the ids of the record) that
\* precedes it.
C14_LabelBeforeHook ==
    \A p \in Procs : Done(p) =>
        \A i \in EligibleFunctions : \A b \in 1..Len(input[i].blocks) :
            LET out == module[p].functions[i].blocks[b]
            IN  \A k \in 1..Len(out) :
                    IsMarker(out[k]) => MarkerPlaced(out, k, ~Enabled[p].val)

\* an instrumented block in which a marker, the on_mem call and a store
\* follow one another
C14_Witness ==
    /\ Instrumented("traced")
    /\ \E i \in EligibleFunctions :
          LET out == module["traced"].functions[i].blocks[1]
          IN  \E k \in 1..(Len(out) - 2) :
                  /\ IsMarker(out[k])
                  /\ out[k + 1].callee.base = "on_mem"
                  /\ out[k + 2].orig /\ out[k + 2].op = "store"

\* the instructions of an input block that get an element of "insts"
Listed(blk) == SelectSeq(blk, LAMBDA I : ~(I.op = "call" /\ I.callee.prefix = "__bbtrace_"))

\* the targets the specification gives the descriptor element of I
ExpectedTargets(I) ==
    IF I.op = "br" THEN [t \in 1..Len(I.succ) |-> I.succ[t] - 1] ELSE <<>>

\* C15: in both modes the descriptor element of a conditional branch has
\* targets [bb_id of successor 0, bb_id of successor 1], that of an
\* unconditional branch the bb_id of its successor alone, and no other
\* element has targets; this holds for successors later in layout order
\* than the branch as well.
C15_BranchTargets ==
    \A p \in Procs : (Done(p) /\ bbinfo[p].written) =>
        \A k \in 1..Len(bbinfo[p].lines) :
            LET blk == Listed(input[EligibleBlocks[k][1]].blocks[EligibleBlocks[k][2]])
                insts == bbinfo[p].lines[k].insts
            IN  /\ Len(insts) = Len(blk)
                /\ \A j \in 1..Len(blk) :
                      /\ insts[j].targets = ExpectedTargets(blk[j])
                      /\ (insts[j].kind = "branch") <=> (blk[j].op = "br")
                      /\ insts[j].kind = "branch" => Len(insts[j].targets) \in {1, 2}

\* both descriptors list the conditional branch of the entry block, whose
\* successors are the third block (true) and the second (false), with
\* targets [2, 1]
C15_Witness ==
    /\ BothWritten
    /\ input[1].blocks[1][1].succ = <<3, 2>>
    /\ \A p \in Procs : bbinfo[p].lines[1].insts[1].targets = <<2, 1>>

\* the value of operand v of an instruction of block `out` when the branch
\* condition of the block is c: a select on the condition yields its
\* second operand for true and its third for false
ValueUnder(out, v, c) ==
    IF \E k \in 1..Len(out) : out[k].op = "select" /\ out[k].callee.base = v.ty
    THEN LET S == out[CHOOSE k \in 1..Len(out) :
                         out[k].op = "select" /\ out[k].callee.base = v.ty]
         IN  IF c THEN S.args[2] ELSE S.args[3]
    ELSE v

\* the block a branch transfers control to when its condition is c
TakenSuccessor(T, c) ==
    IF Len(T.succ) = 2 THEN (IF c THEN T.succ[1] ELSE T.succ[2]) ELSE T.succ[1]

\* C16: every branch has one on_branch hook, and whatever the condition,
\* the taken bb_id and the taken address the hook receives are the bb_id
\* and the block address of the successor the branch transfers control to:
\* successor 0 for true, successor 1 for false, the single successor of an
\* unconditional branch.
C16_TakenTarget ==
    \A p \in Procs : Instrumented(p) =>
        \A i \in EligibleFunctions : \A b \in 1..Len(input[i].blocks) :
            LET out == module[p].functions[i].blocks[b]
                T == input[i].blocks[b][Len(input[i].blocks[b])]
                hooks == HooksNamed(out, "on_branch")
            IN  IF T.op # "br" THEN hooks = <<>>
                ELSE /\ Len(hooks) = 1
                     /\ \A c \in BOOLEAN :
                           /\ ValueUnder(out, hooks[1].args[4], c)
                                 = ConstInt("i32", TakenSuccessor(T, c) - 1)
                           /\ ValueUnder(out, hooks[1].args[5], c)
                                 = BlockAddress(i, TakenSuccessor(T, c))

\* an instrumented conditional branch to the third block (true) or the
\* second (false), whose hook is fed by two selects
C16_Witness ==
    /\ Instrumented("traced")
    /\ input[1].blocks[1][1].succ = <<3, 2>>
    /\ LET out == module["traced"].functions[1].blocks[1]
           H == HooksNamed(out, "on_branch")[1]
       IN  /\ H.args[4] = ValueRef("%taken")
           /\ ValueUnder(out, H.args[4], TRUE) = ConstInt("i32", 2)
           /\ ValueUnder(out, H.args[5], FALSE) = BlockAddress(1, 2)

\* the loop_hint argument of the on_basic_block call of a block
LoopHint(blk) == HooksNamed(blk, "on_basic_block")[1].args[3]

\* the loop_id of the loop with header h: the argument of its on_loop call
LoopIdAt(out, h) == HooksNamed(out[h], "on_loop")[1].args[2]

\* the loop hints of the blocks `out` of a function with the loops `loops`
LoopHintsOk(out, loops) ==
    \A b \in 1..Len(out) :
        IF CfgLoopsAround(loops, b) = {}
        THEN LoopHint(out[b]) = ConstInt("i32", kInvalidLoopId)
        ELSE /\ \A L \in CfgLoopsAround(loops, b) : Len(HooksNamed(out[L[1]], "on_loop")) = 1
             /\ LoopHint(out[b]) = LoopIdAt(out, CfgInnermost(loops, b))
             /\ LoopHint(out[b]) # ConstInt("i32", kInvalidLoopId)
             /\ \A L \in CfgLoopsAround(loops, b) :
                   L[1] # CfgInnermost(loops, b) => LoopHint(out[b]) # LoopIdAt(out, L[1])

\* C17: the loop_hint of a block's on_basic_block call is the loop_id of
\* the innermost loop around the block (of the inner loop, not the outer
\* one, when loops are nested), and it is the sentinel (all 32 bits set)
\* exactly for the blocks that are in no loop.
C17_LoopHint ==
    \A p \in Procs : Instrumented(p) =>
        \A i \in EligibleFunctions :
            LoopHintsOk(module[p].functions[i].blocks, CfgLoops(input[i].blocks))

\* two nested loops
Nested(loops) == loops = {<<2, {2, 3}>>, <<3, {3}>>}

\* an instrumented function whose third block is a loop inside the loop of
\* the second: the third block carries the inner id, the second the outer
\* id, the entry block the sentinel
C17_Witness ==
    /\ Instrumented("traced")
    /\ Nested(CfgLoops(input[1].blocks))
    /\ LET out == module["traced"].functions[1].blocks
       IN  /\ LoopHint(out[3]) = LoopIdAt(out, 3)
           /\ LoopHint(out[2]) = LoopIdAt(out, 2)
           /\ LoopIdAt(out, 3) # LoopIdAt(out, 2)
           /\ LoopHint(out[1]) = ConstInt("i32", kInvalidLoopId)

\* the on_call hooks of block `out` and the calls of input block blk they
\* belong to, pairwise
CallHooksMatch(blk, out, Ok(_, _)) ==
    LET calls == SelectSeq(blk, IsPlainCall)
        hooks == HooksNamed(out, "on_call")
    IN  /\ Len(hooks) = Len(calls)
        /\ \A j \in 1..Len(calls) : Ok(hooks[j], calls[j])

\* the kind code the runtime ABI gives an argument class
KindCode(class) ==
    CASE class = "int" -> 1 [] class = "ptr" -> 2 [] class = "fp" -> 3 [] OTHER -> 0

\* the variadic part of hook H is num_args triples for the arguments of I
TriplesOk(H, I) ==
    /\ Len(H.args) >= 6
    /\ H.args[6] = ConstInt("i32", Len(I.args))
    /\ Len(H.args) = 6 + 3 * Len(I.args)
    /\ [k \in 1..(Len(H.args) - 6) |-> H.args[6 + k].ty]
          = bbtrace_on_call(0, H.args[6].val)
    /\ \A n \in 1..Len(I.args) :
          /\ H.args[3 * n + 4].val = KindCode(I.args[n].class)
          /\ IF I.args[n].class = "other"
             THEN H.args[3 * n + 6] = ConstInt("i64", 0)
             ELSE H.args[3 * n + 6].arg = I.args[n]

CastResult(c, bits) ==
    CASE c.op = "zext" -> [k \in 1..c.to |-> IF k <= Len(bits) THEN bits[k] ELSE FALSE]
      [] c.op = "sext" -> [k \in 1..c.to |-> IF k <= Len(bits) THEN bits[k]
                                               ELSE bits[Len(bits)]]
      [] c.op = "trunc" -> SubSeq(bits, 1, c.to)
      [] OTHER -> bits

RECURSIVE EvalCasts(_, _)
EvalCasts(casts, bits) ==
    IF casts = <<>> THEN bits ELSE EvalCasts(Tail(casts), CastResult(Head(casts), bits))

\* the 64 bits a value operand of the hook holds at run time
MarshalledBits(V) ==
    IF "casts" \in DOMAIN V THEN EvalCasts(V.casts, V.arg.bits)
    ELSE [k \in 1..64 |-> FALSE]

\* v mod 2^64 of a value of w bits: its low 64 bits, zeros above bit w
LowBits64(bits) == [k \in 1..64 |-> IF k <= Len(bits) THEN bits[k] ELSE FALSE]

\* the integer arguments of I are marshalled unsigned into hook H
IntegersOk(H, I) ==
    /\ Len(H.args) = 6 + 3 * Len(I.args)
    /\ \A n \in 1..Len(I.args) :
          I.args[n].class = "int" =>
              /\ H.args[3 * n + 5] = ConstInt("i32", I.args[n].width)
              /\ H.args[3 * n + 6].ty = "i64"
              /\ MarshalledBits(H.args[3 * n + 6]) = LowBits64(I.args[n].bits)

\* C19: an integer argument of width w and unsigned value v is passed as
\* the 64-bit value v mod 2^64 (zero-extended below 64 bits, its low 64
\* bits above, unchanged at 64) with bit width w; it is never
\* sign-extended, so the upper bits of a negative narrow integer are zero.
C19_IntegerMarshalling ==
    \A p \in Procs : Instrumented(p) =>
        \A i \in EligibleFunctions : \A b \in 1..Len(input[i].blocks) :
            CallHooksMatch(input[i].blocks[b], module[p].functions[i].blocks[b], IntegersOk)

\* an instrumented call passing the i8 value -1 and an i128 value -1: the
\* first is marshalled as 255, the second as 2^64-1
C19_Witness ==
    /\ Instrumented("traced")
    /\ input[1].blocks[1][1].args = <<Arg("int", 8, AllOnes(8)), Arg("int", 128, AllOnes(128))>>
    /\ LET H == HooksNamed(module["traced"].functions[1].blocks[1], "on_call")[1]
       IN  /\ MarshalledBits(H.args[9]) = [k \in 1..64 |-> k <= 8]
           /\ H.args[8] = ConstInt("i32", 8)
           /\ MarshalledBits(H.args[12]) = AllOnes(64)
           /\ H.args[11] = ConstInt("i32", 128)

\* the mode the specification derives from a value of BBTRACE_STATIC_ONLY
FirstCharStatic(e) ==
    /\ e.set
    /\ e.chars # <<>>
    /\ e.chars[1] \in {"1", "T", "t", "Y", "y"}

\* a finished invocation ran static-only: no constructor was registered
\* and no hook inserted, the markers are there
RanStaticOnly(p) ==
    /\ module[p].ctors = <<>>
    /\ \A I \in {AllInsts(module[p].functions)[k] :
                    k \in 1..Len(AllInsts(module[p].functions))} :
          ~I.orig => IsMarker(I)

RanInstrumented(p) ==
    /\ Len(module[p].ctors) = 1
    /\ \E k \in 1..Len(AllInsts(module[p].functions)) :
          IsEntryHook(AllInsts(module[p].functions)[k])

\* C20: every pass invocation of a process runs in the mode given by the
\* value BBTRACE_STATIC_ONLY had at the first invocation: static-only iff
\* it was set and its first character was one of 1, T, t, Y, y; the value
\* the variable has at a later invocation does not matter.
C20_ModeFixedAtFirstQuery ==
    \A p \in Procs :
        /\ Done(p) => /\ invocations[p] # <<>>
                      /\ IF FirstCharStatic(invocations[p][1])
                         THEN RanStaticOnly(p) ELSE RanInstrumented(p)
        /\ invocations[p] # <<>> =>
              /\ Enabled[p].init
              /\ Enabled[p].val = FirstCharStatic(invocations[p][1])

\* the second invocation of a process found BBTRACE_STATIC_ONLY changed
\* from "true" to "0" and still ran static-only
C20_Witness ==
    /\ Done("plain")
    /\ invocations["plain"] = <<EnvValue(<<"t", "r", "u", "e">>), EnvValue(<<"0">>)>>
    /\ RanStaticOnly("plain")
    /\ Len(InstRecords("plain")) = 1

\* the function of module M that entry e of a constructor or destructor
\* list names
XtorFunction(M, e) == M.functions[e.fn]

\* a private function of the pass that calls hook `callee` with the operands
\* args and returns
CallsAndReturns(F, name, callee, args) ==
    /\ F.prefix = "__bbtrace_" /\ F.base = name /\ ~F.decl
    /\ Len(F.blocks) = 1
    /\ Len(F.blocks[1]) = 2
    /\ F.blocks[1][1].op = "call"
    /\ F.blocks[1][1].callee = FnCallee("__bbtrace_", callee)
    /\ F.blocks[1][1].args = args
    /\ F.blocks[1][2].op = "ret"

\* C21: an instrumented pass invocation leaves the module with exactly one
\* more global constructor and one more global destructor than the input
\* had (none), both at priority 0; the constructor calls register_module
\* with the module-name string and returns, the destructor calls finalize
\* and returns; this is so for a module without any eligible function too.
C21_CtorDtor ==
    \A p \in Procs : Instrumented(p) =>
        /\ Len(module[p].ctors) = 1 /\ Len(module[p].dtors) = 1
        /\ module[p].ctors[1].priority = 0 /\ module[p].dtors[1].priority = 0
        /\ module[p].ctors[1].fn \in 1..Len(module[p].functions)
        /\ module[p].dtors[1].fn \in 1..Len(module[p].functions)
        /\ CallsAndReturns(XtorFunction(module[p], module[p].ctors[1]), "ctor",
                           "register_module", <<ValueRef("@module_name")>>)
        /\ CallsAndReturns(XtorFunction(module[p], module[p].dtors[1]), "dtor",
                           "finalize", <<>>)

\* an instrumented run on a module that holds declarations only and got
\* its constructor and destructor all the same
C21_Witness ==
    /\ Instrumented("traced")
    /\ EligibleFunctions = {}
    /\ \A i \in 1..Len(input) : input[i].decl
    /\ Len(module["traced"].ctors) = 1 /\ Len(module["traced"].dtors) = 1
    /\ module["traced"].pcmap = <<>>

\* the instrumentation of the finished run of process p is in place: the
\* markers of the loads and stores, and in instrumented mode the
\* constructor and the on_basic_block call of every eligible block
InstrumentationKept(p) ==
    /\ Len(InstRecords(p))
          = Len(SelectSeq(RecordedInsts, LAMBDA I : I.op \in {"load", "store"}))
    /\ Instrumented(p) =>
          /\ Len(module[p].ctors) = 1
          /\ \A k \in 1..Len(EligibleBlocks) :
                Len(HooksNamed(module[p].functions[EligibleBlocks[k][1]]
                                   .blocks[EligibleBlocks[k][2]],
                               "on_basic_block")) = 1

\* C22: when the descriptor file of a module with eligible blocks could
\* not be opened (its directory not created, or the open refused), the
\* pass has written no record, and it has still finished: the PC map has
\* one entry for every eligible block, in traversal order, and the
\* instrumentation is in the module.
C22_OpenFailure ==
    \A p \in Procs : (Done(p) /\ bbinfo[p].failed) =>
        /\ ~bbinfo[p].written
        /\ bbinfo[p].lines = <<>>
        /\ EligibleBlocks # <<>>
        /\ Len(module[p].pcmap) = Len(EligibleBlocks)
        /\ \A k \in 1..Len(EligibleBlocks) :
              /\ module[p].pcmap[k].func_id = ExpectedFuncId(EligibleBlocks[k][1])
              /\ module[p].pcmap[k].bb_id = EligibleBlocks[k][2] - 1
        /\ InstrumentationKept(p)

\* an instrumented run over two eligible blocks, one with a store, whose
\* descriptor file could not be opened: two PC-map entries, the hooks,
\* no record
C22_Witness ==
    /\ Instrumented("traced")
    /\ bbinfo["traced"].failed /\ bbinfo["traced"].lines = <<>>
    /\ Len(module["traced"].pcmap) = 2
    /\ Len(InstRecords("traced")) = 1
    /\ \E k \in 1..Len(AllInsts(module["traced"].functions)) :
          AllInsts(module["traced"].functions)[k].callee.base = "on_mem"

\* the loop ids of the blocks `out` of a function whose loop forest is
\* `loops`: one id per loop, together the range 0..L-1, and the ids of a
\* loop and of the loops nested in it a range that starts at its own id
LoopIdsOk(out, loops) ==
    /\ \A L \in loops : Len(HooksNamed(out[L[1]], "on_loop")) = 1
    /\ {LoopIdAt(out, L[1]) : L \in loops}
          = {ConstInt("i32", n) : n \in 0..(Cardinality(loops) - 1)}
    /\ \A L \in loops :
          {LoopIdAt(out, K[1]).val : K \in {J \in loops : J[2] \subseteq L[2]}}
             = LoopIdAt(out, L[1]).val
               ..(LoopIdAt(out, L[1]).val
                  + Cardinality({J \in loops : J[2] \subseteq L[2]}) - 1)

IsPassMade(text) ==
    \/ text.op = "call" /\ text.callee.prefix = "__bbtrace_"
    \/ text.op = "call" /\ text.callee.base \in {"returnaddress", ".bbtrace_inst"}
    \/ text.op \in {"select", "zext", "sext", "trunc", "bitcast", "ptrtoint"}

\* the instructions of `out` the pass inserted, of one kind
InsertedNamed(out, bases) ==
    SelectSeq(out, LAMBDA I : ~I.orig /\ I.callee.base \in bases)

\* the block `out` made of input block blk, and the InstructionStaticInfos
\* insts of blk
VisitedOnce(blk, out, insts) ==
    /\ SelectSeq(out, LAMBDA I : I.orig) = blk
    /\ Len(insts) = Len(Listed(blk))
    /\ \A j \in 1..Len(insts) :
          /\ insts[j].Buffer.op = Listed(blk)[j].op
          /\ insts[j].Buffer.callee = Listed(blk)[j].callee
          /\ ~IsPassMade(insts[j].Buffer)
          /\ insts[j].Kind = ExpectedKind(Listed(blk)[j])
    /\ Len(InsertedNamed(out, {".bbtrace_inst"}))
          = Len(SelectSeq(blk, LAMBDA I : I.op \in {"load", "store"}))
    /\ Len(InsertedNamed(out, {"on_mem"})) \in {0, Len(InsertedNamed(out, {".bbtrace_inst"}))}
    /\ Len(InsertedNamed(out, {"on_branch"}))
          \in {0, Len(SelectSeq(blk, LAMBDA I : I.op = "br"))}
    /\ Len(InsertedNamed(out, {"on_call"})) \in {0, Len(SelectSeq(blk, IsPlainCall))}
    /\ Len(InsertedNamed(out, {"on_basic_block"})) <= 1
    /\ Len(InsertedNamed(out, {"on_loop"})) <= 1

\* C27: in both modes the InstructionStaticInfos of a block are those of
\* the instructions of the input block that are no runtime calls, each
\* once and in order; none has the text of an instruction the pass
\* inserted (hook call, marker, select, cast, llvm.returnaddress call);
\* and there is one marker per load or store of the input and at most one
\* hook per described instruction of the input, none for an inserted one.
C27_InsertedNotVisited ==
    \A p \in Procs : Done(p) =>
        /\ Len(StaticInfos[p]) = Len(EligibleBlocks)
        /\ \A k \in 1..Len(StaticInfos[p]) :
              VisitedOnce(input[EligibleBlocks[k][1]].blocks[EligibleBlocks[k][2]],
                          module[p].functions[EligibleBlocks[k][1]]
                              .blocks[EligibleBlocks[k][2]],
                          StaticInfos[p][k].Instructions)
        /\ \A g \in 0..(Cardinality(EligibleFunctions) - 1) :
              \A c \in {"mem", "branch", "call"} :
                  IdsOfClass(InstsOfFunc(p, g), c)
                     = [j \in 1..Len(IdsOfClass(InstsOfFunc(p, g), c)) |-> j - 1]

\* an instrumented loop header with a PHI node, a call that passes an i8
\* and a conditional branch: entry hooks, a cast, llvm.returnaddress, the
\* call hook, two selects and the branch hook were inserted, and the
\* block has three InstructionStaticInfos
C27_Witness ==
    /\ Instrumented("traced")
    /\ Len(input[1].blocks[2]) = 3
    /\ input[1].blocks[2][1].op = "phi"
    /\ input[1].blocks[2][2].args # <<>>
    /\ input[1].blocks[2][3].succ = <<2, 2>>
    /\ Len(module["traced"].functions[1].blocks[2]) = 11
    /\ Len(StaticInfos["traced"][2].Instructions) = 3
    /\ StaticInfos["traced"][2].Instructions[2].InstId = 0

\* the entry hooks of block `out`, made of the input block blk that is a
\* loop header or not: behind the PHI nodes and in front of everything
\* else, on_loop directly in front of on_basic_block
EntryHooksPlaced(blk, out, isHeader) ==
    LET first == FirstInsertionPt(blk)
        hooks == IF isHeader THEN <<"on_loop", "on_basic_block">> ELSE <<"on_basic_block">>
    IN  /\ SubSeq(out, 1, first - 1) = SubSeq(blk, 1, first - 1)
        /\ \A k \in 1..(first - 1) : out[k].op = "phi"
        /\ \A h \in 1..Len(hooks) :
              /\ IsEntryHook(out[first - 1 + h])
              /\ out[first - 1 + h].callee.base = hooks[h]
        /\ PositionsOf(out, IsEntryHook) = [h \in 1..Len(hooks) |-> first - 1 + h]
        /\ \A k \in (first + Len(hooks))..Len(out) : out[k].op # "phi"

\* C28: in an instrumented loop header the on_loop call stands directly
\* in front of the on_basic_block call, so a pass through the block calls
\* on_loop first; in every instrumented block the entry hooks stand
\* behind all PHI nodes of the block and in front of its other
\* instructions.
C28_LoopBeforeBlock ==
    \A p \in Procs : Instrumented(p) =>
        \A i \in EligibleFunctions : \A b \in 1..Len(input[i].blocks) :
            EntryHooksPlaced(input[i].blocks[b], module[p].functions[i].blocks[b],
                             b \in CfgHeaders(CfgLoops(input[i].blocks)))

\* an instrumented loop header that starts with two PHI nodes: the PHI
\* nodes, on_loop, on_basic_block, then the branch hook and the branch
C28_Witness ==
    /\ Instrumented("traced")
    /\ [k \in 1..Len(input[1].blocks[2]) |-> input[1].blocks[2][k].op]
          = <<"phi", "phi", "br">>
    /\ LET out == module["traced"].functions[1].blocks[2]
       IN  /\ out[1].op = "phi" /\ out[2].op = "phi"
           /\ out[3].callee.base = "on_loop"
           /\ out[4].callee.base = "on_basic_block"
           /\ out[Len(out)].op = "br"

\* C23: whatever the interleaving of the hooks of several threads, no two
\* lines of the JSONL file carry the same sequence number, and the
\* sequence numbers of the lines increase strictly from each line to the
\* next.
C23_SeqIncreasingInFile ==
    /\ \A i, j \in 1..Len(jsonl) : i # j => jsonl[i].seq # jsonl[j].seq
    /\ \A i \in 1..(Len(jsonl) - 1) : jsonl[i].seq < jsonl[i + 1].seq

\* the elements of a range
Elements(r) == r.base..(r.base + r.size - 1)

\* C24: after every sequence of insert and allocate calls that has not
\* panicked, ranges() is sorted by base, no two of its ranges share an
\* element, none ends where another begins, and size() is the sum of
\* their sizes.
C24_ListInvariant ==
    lastCall.result \notin {"panic", "abort"} =>
        /\ \A i \in 1..(Len(_ranges) - 1) : _ranges[i].base <= _ranges[i + 1].base
        /\ \A i, j \in 1..Len(_ranges) :
              i # j => /\ Elements(_ranges[i]) \cap Elements(_ranges[j]) = {}
                       /\ _ranges[i].base + _ranges[i].size # _ranges[j].base
        /\ _size = SeqSum([i \in 1..Len(_ranges) |-> _ranges[i].size])

\* C25: an insert of a range that shares an element with a range that is
\* free at the call ends in the double-free panic, whatever list the
\* calls before left; and an allocate of a size no free range has
\* returns no value and leaves ranges() and size() as they were.
C25_DoubleFreeRejected ==
    /\ (/\ lastCall.op = "insert"
        /\ \E i \in 1..Len(lastCall.ranges) :
              Elements(lastCall.ranges[i])
                 \cap Elements(Range(lastCall.base, lastCall.size)) # {})
          => lastCall.result = "panic"
    /\ (/\ lastCall.op = "allocate"
        /\ \A i \in 1..Len(lastCall.ranges) : lastCall.ranges[i].size < lastCall.size)
          => /\ lastCall.result = "nullopt"
             /\ _ranges = lastCall.ranges
             /\ _size = lastCall.before

\* C29: wherever __bbtrace_on_call uses off as a destination in args_buf
\* or in sizeof(args_buf) - off, off is at most sizeof(args_buf), so no
\* byte is stored outside args_buf; and the length it hands to log is at
\* most the size of buf.
C29_OffsetInBuffer ==
    /\ oncall.pc \in {"loop", "close"} => oncall.off <= kJsonBufSize
    /\ oncall.pc \in {"format", "log", "done", "crashed"} => ~oncall.out_of_bounds
    /\ oncall.pc = "log" => oncall.len <= kJsonBufSize

\* what the buffer may hold when no thread is inside append or flush
BufferBelowLimit ==
    IF bufferLimit = 0 THEN buffer = <<>> ELSE Len(buffer) < bufferLimit

\* C30: under every interleaving of append and flush calls the bytes
\* written to the stream, followed by the buffer (and, between
\* bufferMutex being taken and buffer.append, the entry of the thread that
\* holds it), are the appended entries in the order their appends took
\* the lock; whenever no call holds the lock, so after every return of
\* append, the buffer holds fewer than bufferLimit bytes (none when
\* bufferLimit is 0); and when flush gives up the lock the buffer is empty.
C30_NothingLostOrReordered ==
    /\ [](stream.bytes \o buffer
             \o (IF \E t \in Threads : caller[t].pc = "append_buffer"
                 THEN caller[CHOOSE t \in Threads : caller[t].pc = "append_buffer"].entry
                 ELSE <<>>)
          = Concat(appended))
    /\ [](bufferMutex = 0 => BufferBelowLimit)
    /\ [][\A t \in Threads :
             caller[t].pc = "flush_write" /\ caller'[t].pc = "idle" => buffer' = <<>>]_vars

\* two threads have appended, the second of them while the first held
\* entries back, part of the entries is in the stream and part in the buffer
C30_Witness ==
    /\ bufferLimit > 0
    /\ \E i, j \in 1..Len(appended) :
          i < j /\ appended[i][1][1] = 2 /\ appended[j][1][1] = 1
    /\ stream.bytes # <<>>
    /\ buffer # <<>>
    /\ bufferMutex = 0
====
